---- MODULE Spec2Model ----
(***************************************************************************)
(* A model of AIService.generateSummary (src/src/modules/aiService.ts):    *)
(* configuration checks, request adaptation, the streaming decoder driven  *)
(* by the transport's progress events (line mode and Gemini object-scanning*)
(* mode), the end of the exchange and the non-streaming fallback.          *)
(*                                                                         *)
(* Text is modelled character by character: a string is a sequence of      *)
(* one-character strings, so that slicing, splitting, trimming and JSON     *)
(* parsing are computed the way the code computes them.  The four Chinese  *)
(* message literals of the source are written as one-element sequences     *)
(* holding an ASCII tag (see MsgRequestFailed and the like).               *)
(***************************************************************************)
EXTENDS Integers, Sequences, FiniteSets, TLC

\* const name = value; rest: the value is bound to the parameter of F, so
\* that it is computed once however often the rest reads it.
Let(value, F(_)) == F(value)

(***************************************************************************)
(* String primitives: the ECMAScript String methods the code uses.         *)
(***************************************************************************)

\* The characters String.prototype.trim removes that occur in the model's alphabet.
IsSpace(c) == c \in {" ", "\t", "\n", "\r"}

RECURSIVE TrimStart(_)
TrimStart(s) ==
    IF s # <<>> /\ IsSpace(Head(s)) THEN TrimStart(Tail(s)) ELSE s

RECURSIVE TrimEnd(_)
TrimEnd(s) ==
    IF s # <<>> /\ IsSpace(s[Len(s)]) THEN TrimEnd(SubSeq(s, 1, Len(s) - 1)) ELSE s

\* String.prototype.trim
Trim(s) == TrimEnd(TrimStart(s))

\* String.prototype.startsWith
StartsWith(s, p) == Len(s) >= Len(p) /\ SubSeq(s, 1, Len(p)) = p

\* String.prototype.endsWith
EndsWith(s, p) == Len(s) >= Len(p) /\ SubSeq(s, Len(s) - Len(p) + 1, Len(s)) = p

\* String.prototype.indexOf, 1-based; 0 when p does not occur in s.
IndexOf(s, p) ==
    Let({i \in 1..(Len(s) - Len(p) + 1) : SubSeq(s, i, i + Len(p) - 1) = p}, LAMBDA hits :
        IF hits = {} THEN 0 ELSE CHOOSE i \in hits : \A j \in hits : i <= j)

\* String.prototype.includes
Includes(s, p) == IndexOf(s, p) # 0

\* String.prototype.replace with a string pattern: the first occurrence only.
ReplaceFirst(s, p, r) ==
    Let(IndexOf(s, p), LAMBDA i :
        IF i = 0 THEN s
        ELSE SubSeq(s, 1, i - 1) \o r \o SubSeq(s, i + Len(p), Len(s)))

UpperLetters ==
    <<"A","B","C","D","E","F","G","H","I","J","K","L","M",
      "N","O","P","Q","R","S","T","U","V","W","X","Y","Z">>

LowerLetters ==
    <<"a","b","c","d","e","f","g","h","i","j","k","l","m",
      "n","o","p","q","r","s","t","u","v","w","x","y","z">>

LowerChar(c) ==
    IF \E i \in 1..Len(UpperLetters) : UpperLetters[i] = c
    THEN LowerLetters[CHOOSE i \in 1..Len(UpperLetters) : UpperLetters[i] = c]
    ELSE c

\* String.prototype.toLowerCase
ToLowerCase(s) == [i \in 1..Len(s) |-> LowerChar(s[i])]

\* Array.prototype.join("") of a list of strings.
RECURSIVE Join(_)
Join(ss) == IF ss = <<>> THEN <<>> ELSE Head(ss) \o Join(Tail(ss))

\* String.prototype.slice(from) with a 0-based, non-negative from.
SliceFrom(s, from) == SubSeq(s, from + 1, Len(s))

Digits == <<"0","1","2","3","4","5","6","7","8","9">>

IsDigit(c) == \E i \in 1..Len(Digits) : Digits[i] = c

DigitValue(c) == (CHOOSE i \in 1..Len(Digits) : Digits[i] = c) - 1

\* Number to decimal string, as a template literal or String() renders a
\* non-negative integer.
RECURSIVE NatToString(_)
NatToString(n) ==
    IF n < 10 THEN <<Digits[n + 1]>>
    ELSE NatToString(n \div 10) \o <<Digits[(n % 10) + 1]>>

IntToString(n) == IF n < 0 THEN <<"-">> \o NatToString(0 - n) ELSE NatToString(n)

(***************************************************************************)
(* JSON values, JSON.parse and JSON.stringify                              *)
(*                                                                         *)
(* A value is a record tagged by t.  The parser is a recursive-descent     *)
(* parser of the JSON grammar restricted to the model's alphabet: integers *)
(* without fraction or exponent, and the string escapes \" \\ \/ \n \r \t. *)
(***************************************************************************)

Undefined == [t |-> "undefined"]

JNull == [t |-> "null"]

JBool(b) == [t |-> "bool", b |-> b]

JNum(n) == [t |-> "num", n |-> n]

JStr(s) == [t |-> "str", s |-> s]

JArr(items) == [t |-> "arr", items |-> items]

\* members: a sequence of <<key, value>> pairs; JSON.parse yields them in
\* property order, one per key.
JObj(members) == [t |-> "obj", members |-> members]

ParseFail == [ok |-> FALSE, v |-> Undefined, i |-> 0]

ParseOk(v, i) == [ok |-> TRUE, v |-> v, i |-> i]

\* JSON whitespace.
IsJsonWs(c) == c \in {" ", "\t", "\n", "\r"}

RECURSIVE SkipWs(_, _)
SkipWs(s, i) == IF i <= Len(s) /\ IsJsonWs(s[i]) THEN SkipWs(s, i + 1) ELSE i

\* The body of a string literal from index i (just after the opening quote).
RECURSIVE ParseStringBody(_, _, _)
ParseStringBody(s, i, acc) ==
    IF i > Len(s) THEN ParseFail
    ELSE IF s[i] = "\"" THEN ParseOk(acc, i + 1)
    ELSE IF s[i] = "\\" THEN
        IF i + 1 > Len(s) THEN ParseFail
        ELSE CASE s[i + 1] = "n"  -> ParseStringBody(s, i + 2, Append(acc, "\n"))
               [] s[i + 1] = "r"  -> ParseStringBody(s, i + 2, Append(acc, "\r"))
               [] s[i + 1] = "t"  -> ParseStringBody(s, i + 2, Append(acc, "\t"))
               [] s[i + 1] = "\"" -> ParseStringBody(s, i + 2, Append(acc, "\""))
               [] s[i + 1] = "\\" -> ParseStringBody(s, i + 2, Append(acc, "\\"))
               [] s[i + 1] = "/"  -> ParseStringBody(s, i + 2, Append(acc, "/"))
               [] OTHER -> ParseFail
    ELSE IF s[i] \in {"\n", "\r", "\t"} THEN ParseFail
    ELSE ParseStringBody(s, i + 1, Append(acc, s[i]))

RECURSIVE ParseDigits(_, _, _)
ParseDigits(s, i, acc) ==
    IF i <= Len(s) /\ IsDigit(s[i])
    THEN ParseDigits(s, i + 1, acc * 10 + DigitValue(s[i]))
    ELSE ParseOk(acc, i)

\* An unsigned integer literal at index i: no leading zero.
ParseNat(s, i) ==
    IF i > Len(s) \/ ~IsDigit(s[i]) THEN ParseFail
    ELSE IF s[i] = "0" /\ i + 1 <= Len(s) /\ IsDigit(s[i + 1]) THEN ParseFail
    ELSE ParseDigits(s, i, 0)

\* The value of the last member named key.
LastValue(members, key) ==
    members[CHOOSE i \in 1..Len(members) :
                /\ members[i][1] = key
                /\ \A j \in (i + 1)..Len(members) : members[j][1] # key][2]

\* One entry per key, at the place of the key's first member and with the
\* value of its last: what defining the members in turn leaves.
RECURSIVE DistinctFrom(_, _)
DistinctFrom(members, i) ==
    IF i > Len(members) THEN <<>>
    ELSE (IF \E j \in 1..(i - 1) : members[j][1] = members[i][1]
          THEN <<>>
          ELSE << <<members[i][1], LastValue(members, members[i][1])>> >>)
         \o DistinctFrom(members, i + 1)

\* 4294967294, the largest array index.
MaxArrayIndex == <<"4","2","9","4","9","6","7","2","9","4">>

\* a < b for canonical numerals a and b.
NumeralLess(a, b) ==
    \/ Len(a) < Len(b)
    \/ /\ Len(a) = Len(b)
       /\ \E i \in 1..Len(a) :
              /\ DigitValue(a[i]) < DigitValue(b[i])
              /\ \A j \in 1..(i - 1) : a[j] = b[j]

\* An array index: a canonical numeral up to 2^32 - 2.
IsArrayIndex(key) ==
    /\ key # <<>>
    /\ \A i \in 1..Len(key) : IsDigit(key[i])
    /\ (key[1] # "0" \/ Len(key) = 1)
    /\ (key = MaxArrayIndex \/ NumeralLess(key, MaxArrayIndex))

Without(seq, i) == SubSeq(seq, 1, i - 1) \o SubSeq(seq, i + 1, Len(seq))

\* Entries with array-index keys, in ascending numeric order.
RECURSIVE AscendingIndex(_)
AscendingIndex(entries) ==
    IF entries = <<>> THEN <<>>
    ELSE Let(CHOOSE i \in 1..Len(entries) :
                 \A j \in 1..Len(entries) :
                     j # i => NumeralLess(entries[i][1], entries[j][1]),
             LAMBDA m : <<entries[m]>> \o AscendingIndex(Without(entries, m)))

IsIndexEntry(e) == IsArrayIndex(e[1])

IsNameEntry(e) == ~IsArrayIndex(e[1])

\* The own properties of the object the members define, in property order:
\* array indices ascending, then the other keys in order of creation.
OwnEntries(members) ==
    Let(DistinctFrom(members, 1), LAMBDA d :
        AscendingIndex(SelectSeq(d, IsIndexEntry)) \o SelectSeq(d, IsNameEntry))

RECURSIVE ParseValue(_, _)
RECURSIVE ParseValueAt(_, _)
RECURSIVE ParseMembers(_, _, _, _)
RECURSIVE ParseElements(_, _, _, _)

\* Object members from index i (whitespace already skipped): first is TRUE
\* just after the opening brace, where a closing brace may follow at once.
ParseMembers(s, i, acc, first) ==
    IF i > Len(s) THEN ParseFail
    ELSE IF s[i] = "}" /\ first THEN ParseOk(JObj(OwnEntries(acc)), i + 1)
    ELSE IF s[i] # "\"" THEN ParseFail
    ELSE
        Let(ParseStringBody(s, i + 1, <<>>), LAMBDA k :
        IF ~k.ok THEN ParseFail
        ELSE
            Let(SkipWs(s, k.i), LAMBDA c :
            IF c > Len(s) \/ s[c] # ":" THEN ParseFail
            ELSE
                Let(ParseValue(s, c + 1), LAMBDA v :
                IF ~v.ok THEN ParseFail
                ELSE
                    Let(SkipWs(s, v.i), LAMBDA d :
                    IF d > Len(s) THEN ParseFail
                    ELSE IF s[d] = "}"
                         THEN ParseOk(JObj(OwnEntries(Append(acc, <<k.v, v.v>>))), d + 1)
                    ELSE IF s[d] = ","
                         THEN ParseMembers(s, SkipWs(s, d + 1),
                                           Append(acc, <<k.v, v.v>>), FALSE)
                    ELSE ParseFail))))

\* Array elements from index i (whitespace already skipped).
ParseElements(s, i, acc, first) ==
    IF i > Len(s) THEN ParseFail
    ELSE IF s[i] = "]" /\ first THEN ParseOk(JArr(acc), i + 1)
    ELSE
        Let(ParseValue(s, i), LAMBDA v :
        IF ~v.ok THEN ParseFail
        ELSE
            Let(SkipWs(s, v.i), LAMBDA d :
            IF d > Len(s) THEN ParseFail
            ELSE IF s[d] = "]" THEN ParseOk(JArr(Append(acc, v.v)), d + 1)
            ELSE IF s[d] = ","
                 THEN ParseElements(s, SkipWs(s, d + 1), Append(acc, v.v), FALSE)
            ELSE ParseFail))

\* A string literal at index i (the opening quote).
ParseString(s, i) ==
    Let(ParseStringBody(s, i + 1, <<>>), LAMBDA r :
        IF r.ok THEN ParseOk(JStr(r.v), r.i) ELSE ParseFail)

\* A number at index i, negated when negative.
ParseNumber(s, i, negative) ==
    Let(ParseNat(s, i), LAMBDA r :
        IF r.ok THEN ParseOk(JNum(IF negative THEN 0 - r.v ELSE r.v), r.i) ELSE ParseFail)

\* The value starting at index i (whitespace already skipped).
ParseValueAt(s, i) ==
    IF i > Len(s) THEN ParseFail
    ELSE CASE s[i] = "{"  -> ParseMembers(s, SkipWs(s, i + 1), <<>>, TRUE)
           [] s[i] = "["  -> ParseElements(s, SkipWs(s, i + 1), <<>>, TRUE)
           [] s[i] = "\"" -> ParseString(s, i)
           [] s[i] = "-"  -> ParseNumber(s, i + 1, TRUE)
           [] IsDigit(s[i]) -> ParseNumber(s, i, FALSE)
           [] s[i] = "t" /\ StartsWith(SliceFrom(s, i - 1), <<"t","r","u","e">>) ->
                ParseOk(JBool(TRUE), i + 4)
           [] s[i] = "f" /\ StartsWith(SliceFrom(s, i - 1), <<"f","a","l","s","e">>) ->
                ParseOk(JBool(FALSE), i + 5)
           [] s[i] = "n" /\ StartsWith(SliceFrom(s, i - 1), <<"n","u","l","l">>) ->
                ParseOk(JNull, i + 4)
           [] OTHER -> ParseFail

ParseValue(s, i0) == ParseValueAt(s, SkipWs(s, i0))

\* JSON.parse: [ok |-> TRUE, v |-> value] or, where the code's JSON.parse
\* throws SyntaxError, ok = FALSE.
JSONparse(s) ==
    Let(ParseValue(s, 1), LAMBDA r :
        IF r.ok /\ SkipWs(s, r.i) > Len(s) THEN r ELSE ParseFail)

\* The string escapes JSON.stringify writes, within the model's alphabet.
RECURSIVE QuoteBody(_)
QuoteBody(s) ==
    IF s = <<>> THEN <<>>
    ELSE (CASE Head(s) = "\"" -> <<"\\", "\"">>
            [] Head(s) = "\\" -> <<"\\", "\\">>
            [] Head(s) = "\n" -> <<"\\", "n">>
            [] Head(s) = "\r" -> <<"\\", "r">>
            [] Head(s) = "\t" -> <<"\\", "t">>
            [] OTHER -> <<Head(s)>>) \o QuoteBody(Tail(s))

Quote(s) == <<"\"">> \o QuoteBody(s) \o <<"\"">>

RECURSIVE JSONstringify(_)
RECURSIVE StringifyElements(_)
RECURSIVE StringifyEntries(_)

StringifyElements(items) ==
    IF items = <<>> THEN <<>>
    ELSE JSONstringify(Head(items))
         \o (IF Len(items) > 1 THEN <<",">> ELSE <<>>)
         \o StringifyElements(Tail(items))

StringifyEntries(entries) ==
    IF entries = <<>> THEN <<>>
    ELSE Quote(Head(entries)[1]) \o <<":">> \o JSONstringify(Head(entries)[2])
         \o (IF Len(entries) > 1 THEN <<",">> ELSE <<>>)
         \o StringifyEntries(Tail(entries))

\* The members of an object as JSON.stringify writes them: the own
\* properties in property order.
StringifyMembers(members) == StringifyEntries(OwnEntries(members))

\* JSON.stringify of a value that JSON.parse produced.
JSONstringify(v) ==
    CASE v.t = "str"  -> Quote(v.s)
      [] v.t = "num"  -> IntToString(v.n)
      [] v.t = "bool" -> IF v.b THEN <<"t","r","u","e">> ELSE <<"f","a","l","s","e">>
      [] v.t = "null" -> <<"n","u","l","l">>
      [] v.t = "arr"  -> <<"[">> \o StringifyElements(v.items) \o <<"]">>
      [] v.t = "obj"  -> <<"{">> \o StringifyMembers(v.members) \o <<"}">>

\* Property read x?.key: the last member named key of an object, undefined
\* for anything else.
Get(v, key) ==
    IF v.t = "obj" /\ \E i \in 1..Len(v.members) : v.members[i][1] = key
    THEN v.members[CHOOSE i \in 1..Len(v.members) :
                       /\ v.members[i][1] = key
                       /\ \A j \in (i + 1)..Len(v.members) : v.members[j][1] # key][2]
    ELSE Undefined

\* Index read x?.[0]: the first element of an array, the first character of
\* a string, the member named "0" of an object, undefined for anything else.
First(v) ==
    IF v.t = "arr" /\ v.items # <<>> THEN v.items[1]
    ELSE IF v.t = "str" /\ v.s # <<>> THEN JStr(<<v.s[1]>>)
    ELSE IF v.t = "obj" THEN Get(v, <<"0">>)
    ELSE Undefined

\* ECMAScript ToBoolean.
Truthy(v) ==
    CASE v.t = "undefined" -> FALSE
      [] v.t = "null"      -> FALSE
      [] v.t = "bool"      -> v.b
      [] v.t = "num"       -> v.n # 0
      [] v.t = "str"       -> v.s # <<>>
      [] OTHER             -> TRUE

\* a || b
OrElse(a, b) == IF Truthy(a) THEN a ELSE b

\* The outcome of ECMAScript ToString: the string, or a TypeError thrown.
DisplayOk(s) == [ok |-> TRUE, s |-> s]

DisplayThrows == [ok |-> FALSE, s |-> <<>>]

\* A value inside a template literal `${v}`: ECMAScript ToString.
RECURSIVE ToDisplay(_)
RECURSIVE DisplayElements(_)

\* Array.prototype.join(","): null and undefined elements render empty; the
\* first element whose conversion throws ends the join.
DisplayElements(items) ==
    IF items = <<>> THEN DisplayOk(<<>>)
    ELSE Let(IF Head(items).t \in {"null", "undefined"}
             THEN DisplayOk(<<>>) ELSE ToDisplay(Head(items)), LAMBDA h :
         IF ~h.ok THEN DisplayThrows
         ELSE Let(DisplayElements(Tail(items)), LAMBDA rest :
              IF ~rest.ok THEN DisplayThrows
              ELSE DisplayOk(h.s \o (IF Len(items) > 1 THEN <<",">> ELSE <<>>) \o rest.s)))

\* An object of JSON.parse converts by Object.prototype.toString unless it
\* has a member named toString: that member is no function, valueOf
\* returns the object itself, and the conversion throws.
ToDisplay(v) ==
    CASE v.t = "str"  -> DisplayOk(v.s)
      [] v.t = "num"  -> DisplayOk(IntToString(v.n))
      [] v.t = "bool" -> DisplayOk(IF v.b THEN <<"t","r","u","e">> ELSE <<"f","a","l","s","e">>)
      [] v.t = "null" -> DisplayOk(<<"n","u","l","l">>)
      [] v.t = "undefined" -> DisplayOk(<<"u","n","d","e","f","i","n","e","d">>)
      [] v.t = "arr"  -> DisplayElements(v.items)
      [] v.t = "obj"  ->
            IF \E i \in 1..Len(v.members) :
                   v.members[i][1] = <<"t","o","S","t","r","i","n","g">>
            THEN DisplayThrows
            ELSE DisplayOk(<<"[","o","b","j","e","c","t"," ","O","b","j","e","c","t","]">>)

\* The template literal `${code}: ${msg}`.
TemplateCodeMsg(code, msg) ==
    Let(ToDisplay(code), LAMBDA c :
        IF ~c.ok THEN DisplayThrows
        ELSE Let(ToDisplay(msg), LAMBDA m :
             IF ~m.ok THEN DisplayThrows
             ELSE DisplayOk(c.s \o <<":"," ">> \o m.s)))

(***************************************************************************)
(* Literals of the source                                                  *)
(***************************************************************************)

FpOpenAI ==
    <<"a","p","i",".","o","p","e","n","a","i",".","c","o","m">>

FpDeepSeek ==
    <<"a","p","i",".","d","e","e","p","s","e","e","k",".","c","o","m">>

FpAzure ==
    <<"o","p","e","n","a","i",".","a","z","u","r","e",".","c","o","m">>

FpGemini ==
    <<"g","e","n","e","r","a","t","i","v","e","l","a","n","g","u","a","g","e",".","g","o","o",
      "g","l","e","a","p","i","s",".","c","o","m">>

FpClaude ==
    <<"a","p","i",".","a","n","t","h","r","o","p","i","c",".","c","o","m">>

\* "You are a helpful academic assistant."
SYSTEM_ROLE_PROMPT ==
    <<"Y","o","u"," ","a","r","e"," ","a"," ","h","e","l","p","f","u","l"," ","a","c","a","d",
      "e","m","i","c"," ","a","s","s","i","s","t","a","n","t",".">>

\* "gpt-3.5-turbo"
DefaultModel ==
    <<"g","p","t","-","3",".","5","-","t","u","r","b","o">>

\* "0.7"
DefaultTemperatureStr == <<"0",".","7">>

\* 0.7, in tenths (numbers with one decimal are kept as integers of tenths).
DefaultTemperature == 7

\* "gemini-pro"
GeminiDefaultModel ==
    <<"g","e","m","i","n","i","-","p","r","o">>

\* "gpt-35-turbo"
AzureDefaultDeployment ==
    <<"g","p","t","-","3","5","-","t","u","r","b","o">>

SufGenerate ==
    <<":","g","e","n","e","r","a","t","e","C","o","n","t","e","n","t">>

SufStream ==
    <<":","s","t","r","e","a","m","G","e","n","e","r","a","t","e","C","o","n","t","e","n","t">>

PathChatCompletions ==
    <<"/","c","h","a","t","/","c","o","m","p","l","e","t","i","o","n","s">>

PathDeployments == <<"/","d","e","p","l","o","y","m","e","n","t","s","/">>

PathOpenAIDeployments ==
    <<"/","o","p","e","n","a","i","/","d","e","p","l","o","y","m","e","n","t","s">>

QueryApiVersion == <<"?","a","p","i","-","v","e","r","s","i","o","n","=">>

\* "2023-05-15"
AzureApiVersion ==
    <<"2","0","2","3","-","0","5","-","1","5">>

\* "2023-06-01"
AnthropicVersion ==
    <<"2","0","2","3","-","0","6","-","0","1">>

PathV1Messages == <<"/","v","1","/","m","e","s","s","a","g","e","s">>

PathModels == <<"/","m","o","d","e","l","s">>

PathV1Beta == <<"/","v","1","b","e","t","a">>

QueryKey == <<"?","k","e","y","=">>

BearerPrefix == <<"B","e","a","r","e","r"," ">>

ApplicationJson ==
    <<"a","p","p","l","i","c","a","t","i","o","n","/","j","s","o","n">>

DataPrefix == <<"d","a","t","a",":"," ">>

DoneSentinel == <<"[","D","O","N","E","]">>

GeminiMaxOutputTokens == 8192

ClaudeMaxTokens == 4096

\* xmlhttp.timeout set by the request observer, in milliseconds.
StreamTimeoutMs == 300000

\* The Chinese message literals of the source, each written as one element.
\* "API URL <not configured>" (aiService.ts:97)
MsgUrlNotConfigured == <<"[API URL not configured]">>

\* "API Key <not configured>" (aiService.ts:102)
MsgKeyNotConfigured == <<"[API Key not configured]">>

\* "<request failed>" (aiService.ts:161, 171)
MsgRequestFailed == <<"[request failed]">>

\* "<unknown error>" (aiService.ts:361, 667)
MsgUnknownError == <<"[unknown error]">>

\* The fixed Chinese sentence between the prompt and the paper in
\* buildUserMessage, written as one element.
MsgAnswerInChinese == <<"[answer in Chinese]">>

\* DEFAULT_SUMMARY_PROMPT, written as one element.
DEFAULT_SUMMARY_PROMPT == <<"[DEFAULT_SUMMARY_PROMPT]">>

(***************************************************************************)
(* Provider registry, messages and request adaptation                      *)
(***************************************************************************)

\* detectProvider matching the URL as written, without lower-casing it.
detectProvider_CaseSensitive(apiUrl) ==
    Let(apiUrl, LAMBDA url :
        IF Includes(url, FpOpenAI) THEN "openai"
        ELSE IF Includes(url, FpDeepSeek) THEN "deepseek"
        ELSE IF Includes(url, FpAzure) THEN "azure"
        ELSE IF Includes(url, FpGemini) THEN "gemini"
        ELSE IF Includes(url, FpClaude) THEN "claude"
        ELSE "custom")

detectProvider(apiUrl) ==
    Let(ToLowerCase(apiUrl), LAMBDA url :
        IF Includes(url, FpOpenAI) THEN "openai"
        ELSE IF Includes(url, FpDeepSeek) THEN "deepseek"
        ELSE IF Includes(url, FpAzure) THEN "azure"
        ELSE IF Includes(url, FpGemini) THEN "gemini"
        ELSE IF Includes(url, FpClaude) THEN "claude"
        ELSE "custom")

\* `${prompt}\n\n<answer in Chinese>\n\n<Paper>\n${text}\n</Paper>`
buildUserMessage(prompt, text) ==
    prompt \o <<"\n", "\n">> \o MsgAnswerInChinese
           \o <<"\n", "\n", "<","P","a","p","e","r",">", "\n">> \o text
           \o <<"\n", "<","/","P","a","p","e","r",">">>

buildMessages(prompt, text, providerType) ==
    Let(buildUserMessage(prompt, text), LAMBDA userMessage :
        IF providerType = "gemini"
        THEN << [role  |-> "user",
                 parts |-> << [text |-> SYSTEM_ROLE_PROMPT \o <<"\n", "\n">> \o userMessage] >>] >>
        ELSE IF providerType = "claude"
        THEN << [role |-> "user", content |-> userMessage] >>
        ELSE << [role |-> "system", content |-> SYSTEM_ROLE_PROMPT],
                [role |-> "user", content |-> userMessage] >>)

\* A payload is a function from the keys present to their values.
HasKey(payload, k) == k \in DOMAIN payload

\* { ...payload, k: v }
WithKey(payload, k, v) ==
    [x \in DOMAIN payload \cup {k} |-> IF x = k THEN v ELSE payload[x]]

DropLastChar(s) == SubSeq(s, 1, Len(s) - 1)

BaseHeaders == [h \in {"Content-Type"} |-> ApplicationJson]

\* geminiUrl leaving an endpoint the URL already names as it is.
geminiUrl_KeepEndpoint(baseUrl, model, isStreaming, hasGen, hasStr) ==
    IF hasGen \/ hasStr
    THEN baseUrl
    ELSE (IF ~Includes(baseUrl, PathModels)
          THEN IF EndsWith(baseUrl, PathV1Beta)
               THEN baseUrl \o PathModels
               ELSE baseUrl \o PathV1Beta \o PathModels
          ELSE baseUrl)
         \o <<"/">> \o model \o <<":">>
         \o (IF isStreaming THEN Tail(SufStream) ELSE Tail(SufGenerate))

\* The Gemini URL before the key is appended (aiService.ts:444-476):
\* hasGen and hasStr tell whether baseUrl names an endpoint already.
geminiUrl(baseUrl, model, isStreaming, hasGen, hasStr) ==
    IF hasGen \/ hasStr
    THEN IF isStreaming /\ hasGen /\ ~hasStr
         THEN ReplaceFirst(baseUrl, SufGenerate, SufStream)
         ELSE IF ~isStreaming /\ hasStr
         THEN ReplaceFirst(baseUrl, SufStream, SufGenerate)
         ELSE baseUrl
    ELSE (IF ~Includes(baseUrl, PathModels)
          THEN IF EndsWith(baseUrl, PathV1Beta)
               THEN baseUrl \o PathModels
               ELSE baseUrl \o PathV1Beta \o PathModels
          ELSE baseUrl)
         \o <<"/">> \o model \o <<":">>
         \o (IF isStreaming THEN Tail(SufStream) ELSE Tail(SufGenerate))

adaptGemini(apiUrl, apiKey, basePayload, isStreaming) ==
    Let(IF EndsWith(apiUrl, <<"/">>) THEN DropLastChar(apiUrl) ELSE apiUrl, LAMBDA baseUrl :
    Let(geminiUrl(baseUrl,
                  IF basePayload.model # <<>> THEN basePayload.model ELSE GeminiDefaultModel,
                  isStreaming,
                  Includes(baseUrl, SufGenerate),
                  Includes(baseUrl, SufStream)), LAMBDA url1 :
        [url     |-> IF apiKey # <<>> THEN url1 \o QueryKey \o apiKey ELSE url1,
         headers |-> BaseHeaders,
         payload |-> [contents         |-> basePayload.messages,
                      generationConfig |-> [temperature     |-> basePayload.temperature,
                                            maxOutputTokens |-> GeminiMaxOutputTokens]]]))

adaptAzure(apiUrl, apiKey, basePayload) ==
    Let(IF EndsWith(apiUrl, <<"/">>) THEN DropLastChar(apiUrl) ELSE apiUrl, LAMBDA baseUrl :
        [url     |-> IF Includes(baseUrl, PathChatCompletions) THEN baseUrl
                     ELSE IF Includes(baseUrl, PathDeployments)
                     THEN IF Includes(baseUrl, QueryApiVersion)
                          THEN ReplaceFirst(baseUrl, QueryApiVersion,
                                            PathChatCompletions \o QueryApiVersion)
                          ELSE baseUrl \o PathChatCompletions \o QueryApiVersion
                                   \o AzureApiVersion
                     ELSE (IF ~Includes(baseUrl, PathOpenAIDeployments)
                           THEN baseUrl \o PathOpenAIDeployments ELSE baseUrl)
                          \o <<"/">>
                          \o (IF basePayload.model # <<>> THEN basePayload.model
                              ELSE AzureDefaultDeployment)
                          \o PathChatCompletions \o QueryApiVersion \o AzureApiVersion,
         headers |-> WithKey(BaseHeaders, "api-key", apiKey),
         payload |-> basePayload])

\* The Claude payload: a system message is hoisted into the system field,
\* and max_tokens is supplied when absent (aiService.ts:546-561).
claudePayload(basePayload) ==
    Let({i \in 1..Len(basePayload.messages) : basePayload.messages[i].role = "system"},
        LAMBDA sysIdx :
    Let(IF sysIdx # {}
        THEN WithKey(
               WithKey(basePayload, "system",
                       basePayload.messages[CHOOSE i \in sysIdx : \A j \in sysIdx : i <= j].content),
               "messages", SelectSeq(basePayload.messages, LAMBDA m : m.role # "system"))
        ELSE basePayload, LAMBDA payload1 :
        IF ~HasKey(payload1, "max_tokens") \/ payload1["max_tokens"] = 0
        THEN WithKey(payload1, "max_tokens", ClaudeMaxTokens)
        ELSE payload1))

adaptClaude(apiUrl, apiKey, basePayload) ==
    [url     |-> IF ~Includes(apiUrl, PathV1Messages)
                 THEN IF EndsWith(apiUrl, <<"/">>) THEN apiUrl \o Tail(PathV1Messages)
                      ELSE apiUrl \o PathV1Messages
                 ELSE apiUrl,
     headers |-> WithKey(WithKey(BaseHeaders, "x-api-key", apiKey),
                         "anthropic-version", AnthropicVersion),
     payload |-> claudePayload(basePayload)]

adaptDefault(apiUrl, apiKey, basePayload, providerType) ==
    [url     |-> IF providerType = "openai" /\ ~Includes(apiUrl, PathChatCompletions)
                 THEN IF EndsWith(apiUrl, <<"/">>)
                      THEN apiUrl \o <<"v","1">> \o PathChatCompletions
                      ELSE apiUrl \o <<"/","v","1">> \o PathChatCompletions
                 ELSE IF providerType = "deepseek" /\ ~Includes(apiUrl, PathChatCompletions)
                 THEN IF EndsWith(apiUrl, <<"/">>)
                      THEN apiUrl \o Tail(PathChatCompletions)
                      ELSE apiUrl \o PathChatCompletions
                 ELSE apiUrl,
     headers |-> IF apiKey # <<>>
                 THEN WithKey(BaseHeaders, "Authorization", BearerPrefix \o apiKey)
                 ELSE BaseHeaders,
     payload |-> basePayload]

adaptRequest(apiUrl, apiKey, basePayload, providerType, isStreaming) ==
    CASE providerType = "gemini" -> adaptGemini(apiUrl, apiKey, basePayload, isStreaming)
      [] providerType = "azure"  -> adaptAzure(apiUrl, apiKey, basePayload)
      [] providerType = "claude" -> adaptClaude(apiUrl, apiKey, basePayload)
      [] OTHER -> adaptDefault(apiUrl, apiKey, basePayload, providerType)

\* x || null, where the caller then tests typeof x === "string".
parseStreamDelta(json, providerType) ==
    CASE providerType = "gemini" ->
            OrElse(Get(First(Get(Get(First(Get(json, <<"c","a","n","d","i","d","a","t","e","s">>)),
                                     <<"c","o","n","t","e","n","t">>),
                                 <<"p","a","r","t","s">>)),
                       <<"t","e","x","t">>),
                   JNull)
      [] providerType = "claude" ->
            OrElse(Get(Get(json, <<"d","e","l","t","a">>), <<"t","e","x","t">>), JNull)
      [] OTHER ->
            OrElse(OrElse(Get(Get(First(Get(json, <<"c","h","o","i","c","e","s">>)),
                                  <<"d","e","l","t","a">>),
                              <<"c","o","n","t","e","n","t">>),
                          Get(Get(json, <<"m","e","s","s","a","g","e">>),
                              <<"c","o","n","t","e","n","t">>)),
                   JNull)

\* The completion text of a non-streaming response (aiService.ts:636-651):
\* the provider's field, or "".
completionText(data, providerType) ==
    CASE providerType = "gemini" ->
            OrElse(Get(First(Get(Get(First(Get(data, <<"c","a","n","d","i","d","a","t","e","s">>)),
                                     <<"c","o","n","t","e","n","t">>),
                                 <<"p","a","r","t","s">>)),
                       <<"t","e","x","t">>),
                   JStr(<<>>))
      [] providerType = "claude" ->
            OrElse(Get(First(Get(data, <<"c","o","n","t","e","n","t">>)), <<"t","e","x","t">>),
                   JStr(<<>>))
      [] OTHER ->
            OrElse(OrElse(Get(Get(First(Get(data, <<"c","h","o","i","c","e","s">>)),
                                  <<"m","e","s","s","a","g","e">>),
                              <<"c","o","n","t","e","n","t">>),
                          Get(Get(data, <<"m","e","s","s","a","g","e">>),
                              <<"c","o","n","t","e","n","t">>)),
                   JStr(<<>>))

(***************************************************************************)
(* The streaming decoder: the onprogress handler of generateSummary        *)
(***************************************************************************)

\* errorFromProgress: null, or an Error with a message.
NoError == [isNull |-> TRUE, message |-> <<>>]

ErrorOf(message) == [isNull |-> FALSE, message |-> message]

\* The call-scoped stream state as generateSummary declares it
\* (aiService.ts:131-138).
InitialStream ==
    [chunks            |-> <<>>,
     delivered         |-> 0,
     gotAnyDelta       |-> FALSE,
     processedLength   |-> 0,
     partialLine       |-> <<>>,
     streamComplete    |-> FALSE,
     abortedDueToError |-> FALSE,
     errorFromProgress |-> NoError]

\* What one invocation of the handler has done so far: the stream state, the
\* increments it passed to the sink (in order), whether it called
\* xmlhttp.abort(), whether it left by a return statement before the timeout
\* reset, and how many frames it handed to JSON.parse.
StartInvocation(st) ==
    [st            |-> st,
     emitted       |-> <<>>,
     abortCalled   |-> FALSE,
     returnedEarly |-> FALSE,
     frames        |-> 0]

\* String.prototype.split(/\r?\n/), from index `start` on: the separator is
\* each LF together with a CR just before it.
RECURSIVE SplitLines(_, _)
SplitLines(s, start) ==
    Let({i \in start..Len(s) : s[i] = "\n"}, LAMBDA nls :
        IF nls = {} THEN <<SubSeq(s, start, Len(s))>>
        ELSE Let(CHOOSE i \in nls : \A j \in nls : i <= j, LAMBDA nl :
                 <<SubSeq(s, start,
                          IF nl - 1 >= start /\ s[nl - 1] = "\r" THEN nl - 2 ELSE nl - 1)>>
                 \o SplitLines(s, nl + 1)))

\* delta.replace(/\n+/g, "\n")
RECURSIVE CollapseNewlines(_)
CollapseNewlines(s) ==
    IF s = <<>> THEN <<>>
    ELSE IF Head(s) = "\n" /\ Len(s) > 1 /\ s[2] = "\n" THEN CollapseNewlines(Tail(s))
    ELSE <<Head(s)>> \o CollapseNewlines(Tail(s))

\* emitDelta with the whole accumulated text offered to the sink instead of
\* the part after `delivered`.
emitDelta_WholeText(inv, text) ==
    [inv EXCEPT !.st.gotAnyDelta = TRUE,
                !.st.chunks      = Append(inv.st.chunks, text),
                !.st.delivered   = Len(Join(Append(inv.st.chunks, text))),
                !.emitted        = Append(inv.emitted, Join(Append(inv.st.chunks, text)))]

\* gotAnyDelta = true; chunks.push(text); then the emission of the new
\* suffix (aiService.ts:222-233 and 301-310).
emitDelta(inv, text) ==
    Let(Join(Append(inv.st.chunks, text)), LAMBDA current :
        IF Len(current) > inv.st.delivered
        THEN [inv EXCEPT !.st.gotAnyDelta = TRUE,
                         !.st.chunks      = Append(inv.st.chunks, text),
                         !.st.delivered   = Len(current),
                         !.emitted = Append(inv.emitted, SliceFrom(current, inv.st.delivered))]
        ELSE [inv EXCEPT !.st.gotAnyDelta = TRUE,
                         !.st.chunks      = Append(inv.st.chunks, text)])

\* decodeLine without the update of the delivered counter.
decodeLine_NoDelivered(inv, jsonStr, providerType) ==
    IF jsonStr = <<>> THEN inv
    ELSE
        Let(JSONparse(jsonStr), LAMBDA r :
        IF ~r.ok THEN [inv EXCEPT !.frames = inv.frames + 1]
        ELSE
            Let(parseStreamDelta(r.v, providerType), LAMBDA delta :
            IF delta.t = "str" /\ delta.s # <<>>
            THEN [emitDelta([inv EXCEPT !.frames = inv.frames + 1], CollapseNewlines(delta.s))
                      EXCEPT !.st.delivered = inv.st.delivered]
            ELSE [inv EXCEPT !.frames = inv.frames + 1]))

\* The try block of the line loop (aiService.ts:294-314) for one payload.  A
\* sink that throws is caught by the same catch as a parse failure, after
\* the state has been updated.
decodeLine(inv, jsonStr, providerType) ==
    IF jsonStr = <<>> THEN inv
    ELSE
        Let(JSONparse(jsonStr), LAMBDA r :
        IF ~r.ok THEN [inv EXCEPT !.frames = inv.frames + 1]
        ELSE
            Let(parseStreamDelta(r.v, providerType), LAMBDA delta :
            IF delta.t = "str" /\ delta.s # <<>>
            THEN emitDelta([inv EXCEPT !.frames = inv.frames + 1], CollapseNewlines(delta.s))
            ELSE [inv EXCEPT !.frames = inv.frames + 1]))

\* linePayload taking a line that is neither SSE data nor NDJSON for the
\* sentinel.
linePayload_OtherIsDone(raw) ==
    IF StartsWith(raw, DataPrefix)
    THEN Let(Trim(SliceFrom(raw, Len(DataPrefix))), LAMBDA jsonStr :
             IF jsonStr = DoneSentinel THEN [kind |-> "done", jsonStr |-> <<>>]
             ELSE [kind |-> "json", jsonStr |-> jsonStr])
    ELSE Let(Trim(raw), LAMBDA trimmed :
             IF StartsWith(trimmed, <<"{">>) THEN [kind |-> "json", jsonStr |-> trimmed]
             ELSE [kind |-> "done", jsonStr |-> <<>>])

\* The payload of one line (aiService.ts:277-294): "done" for the
\* sentinel, "skip" for a line that is neither SSE data nor NDJSON.
linePayload(raw) ==
    IF StartsWith(raw, DataPrefix)
    THEN Let(Trim(SliceFrom(raw, Len(DataPrefix))), LAMBDA jsonStr :
             IF jsonStr = DoneSentinel THEN [kind |-> "done", jsonStr |-> <<>>]
             ELSE [kind |-> "json", jsonStr |-> jsonStr])
    ELSE Let(Trim(raw), LAMBDA trimmed :
             IF StartsWith(trimmed, <<"{">>) THEN [kind |-> "json", jsonStr |-> trimmed]
             ELSE [kind |-> "skip", jsonStr |-> <<>>])

\* for (const raw of parts) { ... } (aiService.ts:276-315)
RECURSIVE processLines(_, _, _)
processLines(inv, parts, providerType) ==
    IF parts = <<>> THEN inv
    ELSE
        Let(linePayload(Head(parts)), LAMBDA line :
        IF line.kind = "done"
        THEN [inv EXCEPT !.st.streamComplete = TRUE, !.returnedEarly = TRUE]
        ELSE processLines(IF line.kind = "json"
                          THEN decodeLine(inv, line.jsonStr, providerType)
                          ELSE inv,
                          Tail(parts), providerType))

\* splitSlice taking the unterminated end of the slice for a line.
splitSlice_FlushAll(slice) ==
    Let(SplitLines(slice, 1), LAMBDA parts :
        IF slice = <<>>
        THEN [parts |-> <<>>, partial |-> <<>>]
        ELSE [parts   |-> IF parts[Len(parts)] = <<>>
                          THEN SubSeq(parts, 1, Len(parts) - 1) ELSE parts,
              partial |-> <<>>])

\* The lines to process and the partial line kept (aiService.ts:262-274).
splitSlice(slice) ==
    Let(SplitLines(slice, 1), LAMBDA parts :
        IF slice # <<>> /\ slice[Len(slice)] \notin {"\n", "\r"}
        THEN [parts   |-> SubSeq(parts, 1, Len(parts) - 1),
              partial |-> parts[Len(parts)]]
        ELSE IF slice = <<>>
        THEN [parts |-> <<>>, partial |-> <<>>]
        ELSE [parts   |-> IF parts[Len(parts)] = <<>>
                          THEN SubSeq(parts, 1, Len(parts) - 1) ELSE parts,
              partial |-> <<>>])

\* lineMode decoding nothing more once the sentinel was seen.
lineMode_ClosedAfterDone(inv, resp, providerType) ==
    Let(splitSlice(inv.st.partialLine \o SliceFrom(resp, inv.st.processedLength)),
        LAMBDA split :
        IF inv.st.streamComplete
        THEN [inv EXCEPT !.st.processedLength = Len(resp),
                         !.st.partialLine     = split.partial]
        ELSE processLines([inv EXCEPT !.st.processedLength = Len(resp),
                                      !.st.partialLine     = split.partial],
                          split.parts, providerType))

\* lineMode slicing the response from its start instead of from
\* processedLength.
lineMode_FromStart(inv, resp, providerType) ==
    Let(splitSlice(inv.st.partialLine \o resp),
        LAMBDA split :
        processLines([inv EXCEPT !.st.processedLength = Len(resp),
                                 !.st.partialLine     = split.partial],
                     split.parts, providerType))

\* Line mode (aiService.ts:260-315).
lineMode(inv, resp, providerType) ==
    Let(splitSlice(inv.st.partialLine \o SliceFrom(resp, inv.st.processedLength)),
        LAMBDA split :
        processLines([inv EXCEPT !.st.processedLength = Len(resp),
                                 !.st.partialLine     = split.partial],
                     split.parts, providerType))

\* The object found at resp[objectStart .. i] (0-based, inclusive): the try
\* block of aiService.ts:218-241.  throwPlan holds the numbers (within this
\* invocation) of the sink calls that throw synchronously: such a throw
\* lands in the catch, which skips the processedLength update.
geminiObject(inv, resp, objectStart, i, throwPlan) ==
    Let(JSONparse(SubSeq(resp, objectStart + 1, i + 1)), LAMBDA r :
        IF ~r.ok THEN [inv EXCEPT !.frames = inv.frames + 1]
        ELSE
            Let(parseStreamDelta(r.v, "gemini"), LAMBDA delta :
            IF delta.t = "str" /\ delta.s # <<>>
            THEN Let(emitDelta([inv EXCEPT !.frames = inv.frames + 1], delta.s), LAMBDA inv2 :
                     IF /\ Len(inv2.emitted) > Len(inv.emitted)
                        /\ Len(inv2.emitted) \in throwPlan
                     THEN inv2
                     ELSE [inv2 EXCEPT !.st.processedLength = i + 1])
            ELSE [inv EXCEPT !.frames = inv.frames + 1, !.st.processedLength = i + 1]))

\* The locals of the scanning loop (aiService.ts:190-194) with the
\* invocation they act on.
StartScan(inv) ==
    [inv |-> inv, braceCount |-> 0, inString |-> FALSE, escape |-> FALSE, objectStart |-> -1]

\* The body of while (i < resp.length) { ...; i++ } for one i, 0-based
\* (aiService.ts:197-254).
scanStep(sc, resp, i, throwPlan) ==
    IF sc.objectStart = -1
    THEN IF resp[i + 1] = "{"
         THEN [sc EXCEPT !.objectStart = i, !.braceCount = 1]
         ELSE sc
    ELSE IF ~sc.inString
    THEN IF resp[i + 1] = "\""
         THEN [sc EXCEPT !.inString = TRUE]
         ELSE IF resp[i + 1] = "{"
         THEN [sc EXCEPT !.braceCount = sc.braceCount + 1]
         ELSE IF resp[i + 1] = "}"
         THEN IF sc.braceCount - 1 = 0
              THEN [sc EXCEPT !.braceCount = 0, !.objectStart = -1,
                              !.inv = geminiObject(sc.inv, resp, sc.objectStart, i, throwPlan)]
              ELSE [sc EXCEPT !.braceCount = sc.braceCount - 1]
         ELSE sc
    ELSE IF sc.escape
         THEN [sc EXCEPT !.escape = FALSE]
         ELSE IF resp[i + 1] = "\\"
         THEN [sc EXCEPT !.escape = TRUE]
         ELSE IF resp[i + 1] = "\""
         THEN [sc EXCEPT !.inString = FALSE]
         ELSE sc

\* The loop over i = lo .. hi - 1 in increasing order, by halves: the first
\* half is computed before the second starts.
RECURSIVE scanRange(_, _, _, _, _)
scanRange(sc, resp, lo, hi, throwPlan) ==
    IF lo >= hi THEN sc
    ELSE IF hi - lo = 1 THEN scanStep(sc, resp, lo, throwPlan)
    ELSE Let(scanRange(sc, resp, lo, lo + ((hi - lo) \div 2), throwPlan), LAMBDA first :
             IF first.braceCount >= 0
             THEN scanRange(first, resp, lo + ((hi - lo) \div 2), hi, throwPlan)
             ELSE first)

\* Gemini object-scanning mode (aiService.ts:185-256).
geminiMode(inv, resp, throwPlan) ==
    scanRange(StartScan(inv), resp, inv.st.processedLength, Len(resp), throwPlan).inv

\* The message of the error captured on an HTTP status >= 400
\* (aiService.ts:154-176): `${code}: ${msg}` from the error body, or
\* `HTTP ${status}: <request failed>` when the body is not JSON.
progressErrorMessage(status, errorResponse) ==
    Let(JSONparse(errorResponse), LAMBDA r :
    IF ~r.ok
    THEN <<"H","T","T","P"," ">> \o IntToString(status) \o <<":"," ">> \o MsgRequestFailed
    ELSE
        Let(OrElse(Get(r.v, <<"e","r","r","o","r">>), r.v), LAMBDA err :
        Let(TemplateCodeMsg(OrElse(Get(err, <<"c","o","d","e">>),
                                  JStr(<<"H","T","T","P"," ">> \o IntToString(status))),
                           OrElse(Get(err, <<"m","e","s","s","a","g","e">>),
                                  JStr(MsgRequestFailed))), LAMBDA text :
            IF text.ok THEN text.s
            ELSE <<"H","T","T","P"," ">> \o IntToString(status) \o <<":"," ">>
                 \o MsgRequestFailed)))

\* statusCheck without the call of xmlhttp.abort().
statusCheck_NoAbort(inv, status, response) ==
    IF response # <<>>
    THEN [inv EXCEPT !.st.abortedDueToError = TRUE,
                     !.st.errorFromProgress = ErrorOf(progressErrorMessage(status, response)),
                     !.returnedEarly        = TRUE]
    ELSE [inv EXCEPT !.returnedEarly = TRUE]

\* The status check at the head of the handler (aiService.ts:153-178): it
\* acts only on a non-empty response, and returns in every case.
statusCheck(inv, status, response) ==
    IF response # <<>>
    THEN [inv EXCEPT !.st.abortedDueToError = TRUE,
                     !.st.errorFromProgress = ErrorOf(progressErrorMessage(status, response)),
                     !.abortCalled          = TRUE,
                     !.returnedEarly        = TRUE]
    ELSE [inv EXCEPT !.returnedEarly = TRUE]

\* xmlhttp.onprogress (aiService.ts:149-326) on a snapshot `response` of the
\* cumulative body with HTTP status `status`.
onprogress(st, status, response, providerType, throwPlan) ==
    IF status >= 400 THEN statusCheck(StartInvocation(st), status, response)
    ELSE IF Len(response) > st.processedLength
    THEN IF providerType = "gemini"
         THEN geminiMode(StartInvocation(st), response, throwPlan)
         ELSE lineMode(StartInvocation(st), response, providerType)
    ELSE StartInvocation(st)

\* if (e.target.timeout) e.target.timeout = 0, reached unless the handler
\* returned before it (aiService.ts:323-325).
timeoutAfter(inv, timeout) ==
    IF inv.returnedEarly THEN timeout
    ELSE IF timeout # 0 THEN 0 ELSE timeout

(***************************************************************************)
(* Inputs: preferences, response bodies, transport errors                  *)
(***************************************************************************)

\* A custom OpenAI-compatible endpoint
\* http://h/v1
UrlCustom ==
    <<"h","t","t","p",":","/","/","h","/","v","1">>

\* https://generativelanguage.googleapis.com/v1beta/models
UrlGemini ==
    <<"h","t","t","p","s",":","/","/","g","e","n","e","r","a","t","i","v","e","l","a","n","g",
      "u","a","g","e",".","g","o","o","g","l","e","a","p","i","s",".","c","o","m","/","v","1",
      "b","e","t","a","/","m","o","d","e","l","s">>

\* https://generativelanguage.googleapis.com/v1beta/models/g:generateContent?key=k
UrlGeminiWithKey ==
    <<"h","t","t","p","s",":","/","/","g","e","n","e","r","a","t","i","v","e","l","a","n","g",
      "u","a","g","e",".","g","o","o","g","l","e","a","p","i","s",".","c","o","m","/","v","1",
      "b","e","t","a","/","m","o","d","e","l","s","/","g",":","g","e","n","e","r","a","t","e",
      "C","o","n","t","e","n","t","?","k","e","y","=","k">>

\* https://api.anthropic.com
UrlClaude ==
    <<"h","t","t","p","s",":","/","/","a","p","i",".","a","n","t","h","r","o","p","i","c",".",
      "c","o","m">>

\* data: {"choices":[{"delta":{"content":"a"}}]}\n
LineDeltaA ==
    <<"d","a","t","a",":"," ","{","\"","c","h","o","i","c","e","s","\"",":","[","{","\"","d",
      "e","l","t","a","\"",":","{","\"","c","o","n","t","e","n","t","\"",":","\"","a","\"","}",
      "}","]","}","\n">>

\* An NDJSON frame, ended by CR LF
\* {"message":{"content":"b"}}\r\n
LineDeltaB ==
    <<"{","\"","m","e","s","s","a","g","e","\"",":","{","\"","c","o","n","t","e","n","t","\"",
      ":","\"","b","\"","}","}","\r","\n">>

\* data: [DONE]\n
LineDone ==
    <<"d","a","t","a",":"," ","[","D","O","N","E","]","\n">>

\* A frame whose payload is not JSON
\* data: {x\n
LineNoise ==
    <<"d","a","t","a",":"," ","{","x","\n">>

\* A provider's error body
\* {"error":{"code":"c","message":"m"}}
ErrorBody ==
    <<"{","\"","e","r","r","o","r","\"",":","{","\"","c","o","d","e","\"",":","\"","c","\"",",",
      "\"","m","e","s","s","a","g","e","\"",":","\"","m","\"","}","}">>

\* {"candidates":[{"content":{"parts":[{"text":"a"}]}}]}
GeminiObjA ==
    <<"{","\"","c","a","n","d","i","d","a","t","e","s","\"",":","[","{","\"","c","o","n","t",
      "e","n","t","\"",":","{","\"","p","a","r","t","s","\"",":","[","{","\"","t","e","x","t",
      "\"",":","\"","a","\"","}","]","}","}","]","}">>

\* A text holding a brace and an escaped quote
\* {"candidates":[{"content":{"parts":[{"text":"}\""}]}}]}
GeminiObjB ==
    <<"{","\"","c","a","n","d","i","d","a","t","e","s","\"",":","[","{","\"","c","o","n","t",
      "e","n","t","\"",":","{","\"","p","a","r","t","s","\"",":","[","{","\"","t","e","x","t",
      "\"",":","\"","}","\\","\"","\"","}","]","}","}","]","}">>

\* {"usageMetadata":{}}
GeminiObjNoText ==
    <<"{","\"","u","s","a","g","e","M","e","t","a","d","a","t","a","\"",":","{","}","}">>

\* Brace-balanced, not JSON
\* {x}
GeminiObjBad ==
    <<"{","x","}">>

\* ,\r\n
GeminiSep ==
    <<",","\r","\n">>

\* {"choices":[{"message":{"content":"r"}}]}
ReplyOpenAI ==
    <<"{","\"","c","h","o","i","c","e","s","\"",":","[","{","\"","m","e","s","s","a","g","e",
      "\"",":","{","\"","c","o","n","t","e","n","t","\"",":","\"","r","\"","}","}","]","}">>

\* {"candidates":[{"content":{"parts":[{"text":"r"}]}}]}
ReplyGemini ==
    <<"{","\"","c","a","n","d","i","d","a","t","e","s","\"",":","[","{","\"","c","o","n","t",
      "e","n","t","\"",":","{","\"","p","a","r","t","s","\"",":","[","{","\"","t","e","x","t",
      "\"",":","\"","r","\"","}","]","}","}","]","}">>

\* A completion that is not a string
\* {"message":{"content":5}}
ReplyNumber ==
    <<"{","\"","m","e","s","s","a","g","e","\"",":","{","\"","c","o","n","t","e","n","t","\"",
      ":","5","}","}">>

\* {}
ReplyEmpty ==
    <<"{","}">>

\* The number of frames (lines, or Gemini objects) of a streamed body.
MaxFrames == 2

RECURSIVE SeqsUpTo(_, _)
\* The sequences over S of length at most n.
SeqsUpTo(S, n) ==
    IF n = 0 THEN {<<>>}
    ELSE LET shorter == SeqsUpTo(S, n - 1)
         IN  shorter \cup {Append(q, x) : q \in shorter, x \in S}

\* A line that is neither SSE data nor NDJSON
\* event: p\n
LinePing ==
    <<"e","v","e","n","t",":"," ","p","\n">>

LineFrames == {LineDeltaA, LineDeltaB, LineDone, LineNoise, LinePing}

\* A frame whose delta is two line feeds
\* data: {"choices":[{"delta":{"content":"\n\n"}}]}\n
LineDeltaNN ==
    <<"d","a","t","a",":"," ","{","\"","c","h","o","i","c","e","s","\"",":","[","{","\"","d",
      "e","l","t","a","\"",":","{","\"","c","o","n","t","e","n","t","\"",":","\"","\\","n",
      "\\","n","\"","}","}","]","}","\n">>

\* A delta frame the server sends without a line terminator after it
\* data: {"choices":[{"delta":{"content":"a"}}]}
LineDeltaTail == SubSeq(LineDeltaA, 1, Len(LineDeltaA) - 1)

\* Bodies of line mode that end with one of these two frames, after up to
\* MaxFrames - 1 NDJSON frames.
LineTailBodies ==
    {Join(q) \o f : q \in SeqsUpTo({LineDeltaB}, MaxFrames - 1),
                    f \in {LineDeltaNN, LineDeltaTail}}

\* Bodies of line mode: up to MaxFrames frames, the error body, and
\* the bodies that end with a frame of their own.
LineBodies ==
    {Join(q) : q \in SeqsUpTo(LineFrames, MaxFrames)} \cup {ErrorBody} \cup LineTailBodies

GeminiObjects == {GeminiObjA, GeminiObjB, GeminiObjNoText, GeminiObjBad}

RECURSIVE JoinWith(_, _)
JoinWith(ss, sep) ==
    IF ss = <<>> THEN <<>>
    ELSE IF Len(ss) = 1 THEN ss[1]
    ELSE ss[1] \o sep \o JoinWith(Tail(ss), sep)

\* Bodies of Gemini mode: a JSON array of up to MaxFrames objects, the empty
\* body and the error body.
GeminiBodies ==
    {<<"[">> \o JoinWith(q, GeminiSep) \o <<"]">> :
        q \in SeqsUpTo(GeminiObjects, MaxFrames) \ {<<>>}} \cup {<<>>, ErrorBody}

StreamBodies(providerType) ==
    IF providerType = "gemini" THEN GeminiBodies ELSE LineBodies

\* Bodies of a non-streaming response (parsed by the transport).
ReplyBodies == {ReplyOpenAI, ReplyGemini, ReplyNumber, ReplyEmpty}

\* What the transport rejects with: the exception's message and the body of
\* its xmlhttp, empty when there is none.
TransportErrors ==
    {[message |-> <<"[transport error]">>, response |-> <<>>],
     [message |-> <<"[transport error]">>, response |-> ErrorBody],
     [message |-> <<"[transport error]">>, response |-> LineNoise]}

\* The HTTP statuses of a streaming exchange.
Statuses == {200, 401}

\* Preference values; the stream preference is "true", "false" or
\* "undefined" (unset).
MakePrefs(apiUrl, apiKey, stream) ==
    [apiUrl        |-> apiUrl,
     apiKey        |-> apiKey,
     model         |-> <<"g">>,
     temperature   |-> DefaultTemperatureStr,
     summaryPrompt |-> <<>>,
     stream        |-> stream]

\* The paper text handed to generateSummary.
FullText == <<"T">>

(***************************************************************************)
(* The state                                                               *)
(***************************************************************************)

VARIABLES
    prefs,         \* the preference store read at the start of the call
    sinkGiven,     \* whether the caller supplied onProgress
    body,          \* the body the server sends on the streaming exchange
    pc,            \* "idle", "streaming", "nonstream", "awaitingSink", "returned",
                   \* "thrown"
    call,          \* locals of the call kept across awaits
    adaptCalls,    \* the isStreaming argument of each adaptRequest invocation
    requests,      \* the HTTP requests issued, in order
    xhr,           \* the streaming exchange: "none", "open", "aborted" (by the
                   \* handler), "resolved", "rejected"
    sent,          \* length of the latest snapshot delivered to onprogress
    timeout,       \* xmlhttp.timeout of the streaming exchange
    stream,        \* the stream state (chunks, delivered, ...)
    wellBehaved,   \* the stream state the same progress events produce when no
                   \* sink call throws
    lastProgress,  \* what the latest onprogress invocation saw and did
    sinkLog,       \* the increments passed to onProgress, in invocation order
    reply,         \* the body of the non-streaming response, once received
    result,        \* the outcome of the call
    \* NoteGenerator.generateNotesForItems, driven by handleGenerateSummary
    build,         \* which copy of NoteGenerator runs: "noteGenerator.ts" or "part_007"
    items,         \* the selected items, each by what its attachments hold
    bpc,           \* "idle", "opening", "opened", "loop", "extracting", "summarising",
                   \* "creating", "resaving", "errorNote", "errorNoteResaving",
                   \* "done"
    idx,           \* the loop index i
    successCount,  \* generateNotesForItems' successCount
    failedCount,   \* generateNotesForItems' failedCount
    stopped,       \* generateNotesForItems' stopped flag
    windowClosed,  \* generateNotesForItems' windowClosed flag (part_007)
    win,           \* the OutputWindow
    fullContent,   \* generateNoteForItem's fullContent
    notes,         \* the notes saved, in order
    caught,        \* the error generateNoteForItem's catch block holds
    runs,          \* per attempted item: its number, how it ended, the text
                   \* generateSummary returned, and when a stop was requested
    handler,       \* handleGenerateSummary's counters and progress line
    \* The preference store as initializeDefaultPrefs sees it
    store,         \* the stored value of each preference key (Undefined: not set)
    form,          \* the fields of the preferences pane while it is loaded
    initCount      \* how many initializations have run

aiVars == <<prefs, sinkGiven, body, pc, call, adaptCalls, requests, xhr, sent,
            timeout, stream, wellBehaved, lastProgress, sinkLog, reply, result>>

batchVars == <<build, items, bpc, idx, successCount, failedCount, stopped,
               windowClosed, win, fullContent, notes, caught, runs, handler>>

storeVars == <<store, form, initCount>>

vars == <<aiVars, batchVars, storeVars>>

NoCall == [started |-> FALSE]

NoProgress ==
    [seen |-> FALSE, status |-> 0, respLen |-> 0, abortCalled |-> FALSE,
     frames |-> 0, emitted |-> 0, sinkOverlap |-> FALSE]

NoResult == [kind |-> "none", text |-> <<>>]

Returned(text) == [kind |-> "return", text |-> text]

Thrown(message) == [kind |-> "throw", text |-> message]

\* parseFloat on the decimal forms the model uses (digits, optionally a
\* point and one digit), in tenths; nan when no number starts the string.
parseFloat(str) ==
    Let(TrimStart(str), LAMBDA s :
    Let(ParseDigits(s, 1, 0), LAMBDA whole :
        IF s # <<>> /\ IsDigit(s[1])
        THEN [nan    |-> FALSE,
              tenths |-> whole.v * 10
                         + (IF whole.i + 1 <= Len(s) /\ s[whole.i] = "."
                               /\ IsDigit(s[whole.i + 1])
                            THEN DigitValue(s[whole.i + 1]) ELSE 0)]
        ELSE [nan |-> TRUE, tenths |-> 0]))

\* parseFloat(temperatureStr) || 0.7, in tenths (aiService.ts:84).
resolveTemperature(temperatureStr) ==
    Let(parseFloat(temperatureStr), LAMBDA parsed :
        IF parsed.nan \/ parsed.tenths = 0 THEN DefaultTemperature ELSE parsed.tenths)

\* The locals generateSummary computes from the preferences
\* (aiService.ts:79-92, 106-113).
ResolveConfig(p) ==
    Let(Trim(p.apiUrl), LAMBDA apiUrl :
    Let(detectProvider(apiUrl), LAMBDA providerType :
        [started       |-> TRUE,
         apiKey        |-> Trim(p.apiKey),
         apiUrl        |-> apiUrl,
         providerType  |-> providerType,
         streamEnabled |-> p.stream # "false",
         basePayload   |->
            [model       |-> Trim(IF p.model # <<>> THEN p.model ELSE DefaultModel),
             messages    |-> buildMessages(IF Trim(p.summaryPrompt) # <<>>
                                           THEN p.summaryPrompt
                                           ELSE DEFAULT_SUMMARY_PROMPT,
                                           FullText, providerType),
             temperature |-> resolveTemperature(IF p.temperature # <<>> THEN p.temperature
                                                ELSE DefaultTemperatureStr)]]))

\* A request as handed to Zotero.HTTP.request.
Request(adapted, payload, responseType) ==
    [url          |-> adapted.url,
     headers      |-> adapted.headers,
     payload      |-> payload,
     responseType |-> responseType]

(***************************************************************************)
(* The end of the streaming exchange and the non-streaming completion      *)
(***************************************************************************)

\* The message computed from a rejected exchange (aiService.ts:361-375 and
\* 667-681).
transportErrorMessage(error) ==
    IF error.response # <<>>
    THEN Let(JSONparse(error.response), LAMBDA r :
         IF ~r.ok THEN error.message
         ELSE Let(OrElse(Get(r.v, <<"e","r","r","o","r">>), r.v), LAMBDA err :
              Let(TemplateCodeMsg(OrElse(Get(err, <<"c","o","d","e">>),
                                        JStr(<<"E","r","r","o","r">>)),
                                 OrElse(Get(err, <<"m","e","s","s","a","g","e">>),
                                        JStr(error.message))), LAMBDA text :
                  IF text.ok THEN text.s ELSE error.message)))
    ELSE error.message

\* streamCatch with the sentinel test made before the abort test.
streamCatch_SentinelFirst(st, error) ==
    IF st.streamComplete /\ st.gotAnyDelta
    THEN Returned(Join(st.chunks))
    ELSE IF st.abortedDueToError /\ ~st.errorFromProgress.isNull
    THEN Thrown(st.errorFromProgress.message)
    ELSE Thrown(transportErrorMessage(error))

\* The catch block of the streaming branch (aiService.ts:347-379).
streamCatch(st, error) ==
    IF st.abortedDueToError /\ ~st.errorFromProgress.isNull
    THEN Thrown(st.errorFromProgress.message)
    ELSE IF st.streamComplete /\ st.gotAnyDelta
    THEN Returned(Join(st.chunks))
    ELSE Thrown(transportErrorMessage(error))

\* streamResolved returning the streamed text whether or not a delta came.
streamResolved_NoFallback(st) == Returned(Join(st.chunks))

\* After the awaited request resolved (aiService.ts:381-387): the streamed
\* text, or kind "fallback" when nonStreamCompletion is to be called.
streamResolved(st) ==
    IF st.gotAnyDelta /\ Join(st.chunks) # <<>>
    THEN Returned(Join(st.chunks))
    ELSE [kind |-> "fallback", text |-> <<>>]

\* nonStreamRequest made with the default model instead of the call's.
nonStreamRequest_DefaultModel(c) ==
    Let(adaptRequest(c.apiUrl, c.apiKey, [c.basePayload EXCEPT !.model = DefaultModel],
                     c.providerType, FALSE), LAMBDA a :
        Request(a, a.payload, "json"))

\* The request nonStreamCompletion issues (aiService.ts:624-632).
nonStreamRequest(c) ==
    Let(adaptRequest(c.apiUrl, c.apiKey, c.basePayload, c.providerType, FALSE), LAMBDA a :
        Request(a, a.payload, "json"))

\* The text nonStreamCompletion makes of a response body
\* (aiService.ts:633-653): data is the parsed body, or the response object
\* itself (which has none of the fields read) when the body did not parse.
nonStreamResult(responseBody, providerType) ==
    Let(JSONparse(responseBody), LAMBDA r :
    Let(completionText(IF r.ok /\ Truthy(r.v) THEN r.v ELSE JObj(<<>>), providerType),
        LAMBDA text :
        IF text.t = "str" THEN text.s ELSE JSONstringify(text)))

(***************************************************************************)
(* Actions                                                                 *)
(***************************************************************************)

\* validateConfig with the key test made before the URL test.
validateConfig_KeyFirst(c) ==
    IF c.apiKey = <<>> /\ c.providerType # "gemini" THEN Thrown(MsgKeyNotConfigured)
    ELSE IF c.apiUrl = <<>> THEN Thrown(MsgUrlNotConfigured)
    ELSE NoResult

\* The basic validation (aiService.ts:94-103): the error thrown, or none.
validateConfig(c) ==
    IF c.apiUrl = <<>> THEN Thrown(MsgUrlNotConfigured)
    ELSE IF c.apiKey = <<>> /\ c.providerType # "gemini" THEN Thrown(MsgKeyNotConfigured)
    ELSE NoResult

\* generateSummary from its entry to its first await (aiService.ts:73-141,
\* 388-391): configuration checks, adaptation, and the first request.
Start ==
    /\ pc = "idle"
    /\ \E c \in {ResolveConfig(prefs)} :
          /\ call' = c
          /\ IF validateConfig(c).kind = "throw"
             THEN /\ pc' = "thrown"
                  /\ result' = validateConfig(c)
                  /\ UNCHANGED <<adaptCalls, requests, xhr, timeout>>
             ELSE IF c.streamEnabled /\ sinkGiven
             THEN \E a \in {adaptRequest(c.apiUrl, c.apiKey, c.basePayload,
                                         c.providerType, c.streamEnabled)} :
                     /\ pc' = "streaming"
                     /\ adaptCalls' = <<c.streamEnabled>>
                     /\ requests' =
                          <<Request(a,
                                    IF c.providerType = "gemini" THEN a.payload
                                    ELSE WithKey(a.payload, "stream", TRUE),
                                    "text")>>
                     /\ xhr' = "open"
                     /\ timeout' = StreamTimeoutMs
                     /\ UNCHANGED result
             ELSE /\ pc' = "nonstream"
                  /\ adaptCalls' = <<c.streamEnabled, FALSE>>
                  /\ requests' = <<nonStreamRequest(c)>>
                  /\ UNCHANGED <<result, xhr, timeout>>
    /\ UNCHANGED <<prefs, sinkGiven, body, sent, stream, wellBehaved, lastProgress,
                   sinkLog, reply>>
    /\ UNCHANGED <<batchVars, storeVars>>

\* The first position after `from` at which the body has a line terminator,
\* a space or a closing brace; the end of the body when there is none.
NextBoundary(from) ==
    Let({p \in (from + 1)..Len(body) : body[p] \in {"\n", "\r", "}", " "}}, LAMBDA hits :
        IF hits = {} THEN Len(body) ELSE CHOOSE p \in hits : \A q \in hits : p <= q)

\* The lengths the next snapshot may have: up to the next boundary (which
\* cuts a line after its prefix, inside its JSON, and between CR and LF), or
\* the whole body; once the whole body is in, the end-of-body progress event
\* repeats the same snapshot.
NextCuts ==
    IF sent = Len(body) THEN {sent}
    ELSE {NextBoundary(sent), Len(body)}

\* Which sink calls of one onprogress invocation throw synchronously: none,
\* the first, or all.
ThrowPlans == {{}, {1}, 1..MaxFrames}

\* Whether, among `emitted` sink calls made by one onprogress invocation, a
\* call started while the promise of an earlier call of that invocation was
\* still pending: the handler does not await the promise
\* (Promise.resolve(onProgress(newChunk)).catch(...)), so this is the case
\* as soon as the sink settles later than it returns (slow) and an earlier
\* call returned a promise instead of throwing.
sinkCallsOverlap(emitted, throwPlan, slow) ==
    /\ slow
    /\ \E i \in 1..emitted, j \in 1..emitted : i < j /\ i \notin throwPlan

\* A progress event of the streaming exchange: the handler runs on the
\* snapshot body[1..m] and reads `status` from the request; `slow` tells
\* whether the promises the sink returns settle later than the call returns.  A body has at
\* most MaxFrames frames: more chunks than that come from decoding a frame
\* again, and the events stop there.
Progress(m, status, throwPlan, slow) ==
    /\ pc = "streaming"
    /\ xhr = "open"
    /\ Len(stream.chunks) <= MaxFrames
    /\ \E inv \in {onprogress(stream, status, SubSeq(body, 1, m), call.providerType,
                               throwPlan)} :
          /\ stream' = inv.st
          /\ sinkLog' = sinkLog \o inv.emitted
          /\ xhr' = IF inv.abortCalled THEN "aborted" ELSE xhr
          /\ timeout' = timeoutAfter(inv, timeout)
          /\ lastProgress' = [seen        |-> TRUE,
                              status      |-> status,
                              respLen     |-> m,
                              abortCalled |-> inv.abortCalled,
                              frames      |-> inv.frames,
                              emitted     |-> Len(inv.emitted),
                              sinkOverlap |-> sinkCallsOverlap(Len(inv.emitted),
                                                               throwPlan, slow)]
    /\ wellBehaved' = onprogress(wellBehaved, status, SubSeq(body, 1, m),
                                 call.providerType, {}).st
    /\ sent' = m
    /\ UNCHANGED <<prefs, sinkGiven, body, pc, call, adaptCalls, requests, reply, result>>
    /\ UNCHANGED <<batchVars, storeVars>>

\* The streaming request resolves, after the whole body was delivered;
\* Zotero.HTTP.request resolves on a success status only.
TransportResolve ==
    /\ pc = "streaming"
    /\ xhr = "open"
    /\ lastProgress.status < 400
    /\ sent = Len(body)
    /\ xhr' = "resolved"
    /\ \E out \in {streamResolved(stream)} :
          IF out.kind = "fallback"
          THEN /\ pc' = "nonstream"
               /\ adaptCalls' = Append(adaptCalls, FALSE)
               /\ requests' = Append(requests, nonStreamRequest(call))
               /\ UNCHANGED result
          ELSE /\ pc' = "returned"
               /\ result' = out
               /\ UNCHANGED <<adaptCalls, requests>>
    /\ UNCHANGED <<prefs, sinkGiven, body, call, sent, timeout, stream, wellBehaved,
                   lastProgress, sinkLog, reply>>
    /\ UNCHANGED <<batchVars, storeVars>>

\* The streaming request rejects: a network error, a timeout, an error
\* status, or the abort the handler asked for.
TransportReject(error) ==
    /\ pc = "streaming"
    /\ xhr \in {"open", "aborted"}
    /\ xhr' = "rejected"
    /\ \E out \in {streamCatch(stream, error)} :
          /\ pc' = IF out.kind = "return" THEN "returned" ELSE "thrown"
          /\ result' = out
    /\ UNCHANGED <<prefs, sinkGiven, body, call, adaptCalls, requests, sent, timeout,
                   stream, wellBehaved, lastProgress, sinkLog, reply>>
    /\ UNCHANGED <<batchVars, storeVars>>

\* The non-streaming request resolves with body `r` (aiService.ts:633-663).
\* With a sink and a text, the sink is called and its promise awaited: the
\* call returns in a later step, unless the sink throws at once
\* (sinkThrows), which the catch swallows before the return.
NonStreamResolve(r, sinkThrows) ==
    /\ pc = "nonstream"
    /\ reply' = r
    /\ \E text \in {nonStreamResult(r, call.providerType)} :
          IF sinkGiven /\ text # <<>>
          THEN /\ sinkLog' = Append(sinkLog, text)
               /\ IF sinkThrows
                  THEN pc' = "returned" /\ result' = Returned(text)
                  ELSE pc' = "awaitingSink" /\ UNCHANGED result
          ELSE /\ pc' = "returned"
               /\ result' = Returned(text)
               /\ UNCHANGED sinkLog
    /\ UNCHANGED <<prefs, sinkGiven, body, call, adaptCalls, requests, xhr, sent,
                   timeout, stream, wellBehaved, lastProgress>>
    /\ UNCHANGED <<batchVars, storeVars>>

\* The promise of the awaited sink call settles, fulfilled or rejected
\* (aiService.ts:656-663): the call returns the text.  A promise that never
\* settles leaves the call waiting.
SinkSettles ==
    /\ pc = "awaitingSink"
    /\ pc' = "returned"
    /\ result' = Returned(nonStreamResult(reply, call.providerType))
    /\ UNCHANGED <<prefs, sinkGiven, body, call, adaptCalls, requests, xhr, sent,
                   timeout, stream, wellBehaved, lastProgress, sinkLog, reply>>
    /\ UNCHANGED <<batchVars, storeVars>>

\* The non-streaming request rejects (aiService.ts:665-685).
NonStreamReject(error) ==
    /\ pc = "nonstream"
    /\ pc' = "thrown"
    /\ result' = Thrown(transportErrorMessage(error))
    /\ UNCHANGED <<prefs, sinkGiven, body, call, adaptCalls, requests, xhr, sent,
                   timeout, stream, wellBehaved, lastProgress, sinkLog, reply>>
    /\ UNCHANGED <<batchVars, storeVars>>

(***************************************************************************)
(* The batch: NoteGenerator, the output window and the menu handler        *)
(***************************************************************************)

\* The two builds of NoteGenerator in the repository.
Builds == {"noteGenerator.ts", "part_007"}

\* What an item's attachments hold: a PDF with text ("pdf"), nothing
\* ("noAttachments"), no PDF ("noPdf"), a PDF whose full-text cache file is
\* empty ("emptyCache"), a PDF whose cache file is missing or holds white
\* space only ("blankText").
ItemKinds == {"pdf", "noAttachments", "noPdf", "emptyCache", "blankText"}

\* The largest batch explored.
MaxItems == 2

\* The most chunks the sink receives for one item.
MaxChunks == 1

\* A chunk the sink receives and the text generateSummary returns.
ChunkA == <<"a">>
SummaryS == <<"s">>

MsgNoAttachments == <<"N","o"," ","a","t","t","a","c","h","m","e","n","t","s"," ","f","o","u","n","d"," ","f","o","r"," ","t","h","i","s"," ","i","t","e","m">>
MsgNoPdfAttachment == <<"N","o"," ","P","D","F"," ","a","t","t","a","c","h","m","e","n","t"," ","f","o","u","n","d"," ","f","o","r"," ","t","h","i","s"," ","i","t","e","m">>
MsgEmptyPdf == <<"F","a","i","l","e","d"," ","t","o"," ","e","x","t","r","a","c","t"," ","t","e","x","t"," ","f","r","o","m"," ","P","D","F"," ","o","r"," ","P","D","F"," ","i","s"," ","e","m","p","t","y">>
MsgExtractionFailed == <<"P","D","F"," ","t","e","x","t"," ","e","x","t","r","a","c","t","i","o","n"," ","f","a","i","l","e","d",":"," ">>
MsgEmptyCacheFile == <<"E","m","p","t","y"," ","c","a","c","h","e"," ","f","i","l","e">>
MsgUnableToExtract == <<"U","n","a","b","l","e"," ","t","o"," ","e","x","t","r","a","c","t"," ","t","e","x","t"," ","f","r","o","m"," ","P","D","F">>
MsgExtracting == <<"[extracting PDF text]">>
MsgGenerating == <<"[generating AI summary]">>
MsgCreatingNote == <<"[creating note]">>
MsgDone == <<"[done]">>
MsgSaveFailed == <<"[save failed]">>

\* The final messages generateNotesForItems hands to the progress callback.
MsgStopped(s, f, n) == <<"[stopped]", s, f, n>>
MsgAllDone == <<"[all items processed]">>
MsgAllFailed == <<"[all items failed]">>
MsgSomeFailed(s, f) == <<s, "[succeeded]", f, "[failed]">>

\* The prefix handleGenerateSummary looks for in a progress message.
ErrorPrefix == <<"E","r","r","o","r",":">>

\* PDFExtractor.extractTextFromPDF: the text of the cache file when it is
\* not blank; every failure is rethrown under the prefix.
extractTextFromPDF(kind) ==
    CASE kind = "emptyCache" -> Thrown(MsgExtractionFailed \o MsgEmptyCacheFile)
      [] kind = "blankText" -> Thrown(MsgExtractionFailed \o MsgUnableToExtract)
      [] OTHER -> Returned(FullText)

\* PDFExtractor.extractTextFromItem.
extractTextFromItem(kind) ==
    CASE kind = "noAttachments" -> Thrown(MsgNoAttachments)
      [] kind = "noPdf" -> Thrown(MsgNoPdfAttachment)
      [] OTHER ->
            Let(extractTextFromPDF(kind), LAMBDA text :
                IF text.kind = "throw" THEN text
                ELSE IF Trim(text.text) = <<>> THEN Thrown(MsgEmptyPdf)
                ELSE text)

\* ---- OutputWindow -------------------------------------------------------
\* isOpen: the dialog exists; open: the window holds its container and its
\* stop button, with the click listener attached; current: an item
\* container is set; blocks: what the container shows.
NewOutputWindow ==
    [isOpen |-> FALSE, open |-> FALSE, current |-> FALSE, buffer |-> <<>>,
     stopDisabled |-> FALSE, onStop |-> FALSE, onClose |-> FALSE, blocks |-> <<>>]

\* OutputWindow.open up to its wait: the dialog is opened.
open(w) == IF w.isOpen THEN w ELSE [w EXCEPT !.isOpen = TRUE]

\* OutputWindow.open after its wait: the container and the stop button are
\* taken and the click listener attached, if the dialog still exists.
openAfterDelay(w) ==
    IF w.isOpen
    THEN [w EXCEPT !.open = TRUE, !.stopDisabled = FALSE, !.blocks = <<>>]
    ELSE w

setOnStop(w) == [w EXCEPT !.onStop = TRUE]

\* Registers the callback run when the window is closed.
setOnClose(w) == [w EXCEPT !.onClose = TRUE]

startItem_Unguarded(w, title) ==
    [w EXCEPT !.buffer = <<>>, !.current = TRUE,
              !.blocks = Append(@, [kind |-> "item", title |-> title])]

startItem(w, title) ==
    IF ~w.open THEN w
    ELSE [w EXCEPT !.buffer = <<>>, !.current = TRUE,
                   !.blocks = Append(@, [kind |-> "item", title |-> title])]

appendContent(w, chunk) ==
    IF ~w.current THEN w ELSE [w EXCEPT !.buffer = @ \o chunk]

finishItem(w) ==
    IF ~w.current THEN w
    ELSE [w EXCEPT !.current = FALSE,
                   !.blocks = Append(@, [kind |-> "saved"])]

showComplete(w, nSuccess, nTotal) ==
    IF ~w.open THEN w
    ELSE [w EXCEPT !.blocks = Append(@, [kind |-> "complete",
                                         success |-> nSuccess,
                                         failed |-> nTotal - nSuccess])]

showStopped(w, nSuccess, nFailed, nNotProcessed) ==
    IF ~w.open THEN w
    ELSE [w EXCEPT !.blocks = Append(@, [kind |-> "stopped",
                                         success |-> nSuccess,
                                         failed |-> nFailed,
                                         notProcessed |-> nNotProcessed])]

showError(w, title, message) ==
    IF ~w.open THEN w
    ELSE [w EXCEPT !.blocks = Append(@, [kind |-> "error", title |-> title])]

disableStopButton(w) ==
    IF w.open /\ ~w.stopDisabled THEN [w EXCEPT !.stopDisabled = TRUE] ELSE w

cleanup(w) ==
    [w EXCEPT !.isOpen = FALSE, !.open = FALSE, !.current = FALSE, !.onStop = FALSE,
              !.stopDisabled = FALSE, !.blocks = <<>>]

\* The stop button's click handler: the flag generateNotesForItems reads
\* after the click.
stopClicked(w, stoppedFlag) == stoppedFlag \/ w.onStop

\* ---- handleGenerateSummary's progress callback ---------------------------
NewHandler ==
    [lineCreated |-> FALSE, successCount |-> 0, failedCount |-> 0,
     final |-> [kind |-> "none", success |-> 0, failed |-> 0]]

handlerCount(h, current, progress, message) ==
    IF current = 1 /\ progress = 10 THEN [h EXCEPT !.lineCreated = TRUE]
    ELSE IF StartsWith(message, ErrorPrefix)
    THEN [h EXCEPT !.failedCount = @ + 1]
    ELSE IF progress = 100 THEN [h EXCEPT !.successCount = @ + 1]
    ELSE h

handlerFinal(h, current, total, progress) ==
    IF current = total /\ progress = 100
    THEN IF h.failedCount = 0
         THEN [h EXCEPT !.final = [kind |-> "allDone", success |-> total,
                                   failed |-> 0]]
         ELSE [h EXCEPT !.final = [kind |-> "counts",
                                   success |-> h.successCount,
                                   failed |-> h.failedCount]]
    ELSE h

progressCallback(h, current, total, progress, message) ==
    handlerFinal(handlerCount(h, current, progress, message),
                 current, total, progress)

\* ---- NoteGenerator -------------------------------------------------------
total == Len(items)

shouldBreak_Never(stoppedFlag) == FALSE

\* The loop's test of the stop flag.
shouldBreak(stoppedFlag) == stoppedFlag

nextIndexAfterFailure_Abort(i, n) == n

\* The loop index after an item failed.
nextIndexAfterFailure(i, n) == i + 1

noteTextFor_Streamed(streamed, summary) == streamed

\* The text the note is built from: fullContent = summary.
noteTextFor(streamed, summary) == summary

formatNoteContent(title, summary) ==
    [item |-> title, kind |-> "summary", text |-> summary]

errorNoteContent(title, message) ==
    [item |-> title, kind |-> "error", text |-> message]

\* Whether the catch block of generateNoteForItem writes a note of its own.
writesErrorNote(b, noteExists) == b = "noteGenerator.ts" /\ ~noteExists

NewRun(n) ==
    [item |-> n, outcome |-> "running", returned |-> FALSE, summary |-> <<>>,
     stopAsked |-> FALSE, closedDuring |-> FALSE]

SetLast(seq, f, v) == [seq EXCEPT ![Len(seq)] = [@ EXCEPT ![f] = v]]

\* The places where generateNoteForItem waits.
ItemStates ==
    {"extracting", "summarising", "creating", "resaving", "errorNote",
     "errorNoteResaving"}

InItem == bpc \in ItemStates

\* The places where the batch waits, and a click or a close can land.
Waiting == bpc \in {"opening", "opened"} \cup ItemStates

\* The dialog outlives the batch: its listeners also run once
\* generateNotesForItems has returned.
ListenersRun == Waiting \/ bpc = "done"

\* The menu command: generateNotesForItems creates the window and calls
\* open, which opens the dialog and waits.
BatchStart ==
    /\ bpc = "idle"
    /\ win' = open(win)
    /\ bpc' = "opening"
    /\ UNCHANGED <<build, items, caught, idx, successCount, failedCount, stopped,
                   windowClosed, fullContent, notes, runs, handler>>
    /\ UNCHANGED <<aiVars, storeVars>>

\* The wait of open ends: open takes the container and the button, then
\* generateNotesForItems registers its callbacks and waits for the window.
OpenReturns ==
    /\ bpc = "opening"
    /\ win' = IF build = "part_007"
              THEN setOnClose(setOnStop(openAfterDelay(win)))
              ELSE setOnStop(openAfterDelay(win))
    /\ bpc' = "opened"
    /\ UNCHANGED <<build, items, caught, idx, successCount, failedCount, stopped,
                   windowClosed, fullContent, notes, runs, handler>>
    /\ UNCHANGED <<aiVars, storeVars>>

\* One turn of the loop that takes an item: the callback at 10.
BeginItem ==
    /\ bpc \in {"opened", "loop"}
    /\ idx < total
    /\ ~shouldBreak(stopped)
    /\ runs' = Append(runs, NewRun(idx + 1))
    /\ fullContent' = <<>>
    /\ handler' = progressCallback(handler, idx + 1, total, 10, MsgExtracting)
    /\ bpc' = "extracting"
    /\ UNCHANGED <<build, items, caught, idx, successCount, failedCount, stopped,
                   windowClosed, win, notes>>
    /\ UNCHANGED <<aiVars, storeVars>>

\* The report after the loop.
Report ==
    /\ bpc \in {"opened", "loop"}
    /\ idx >= total \/ shouldBreak(stopped)
    /\ IF stopped
       THEN /\ win' = showStopped(disableStopButton(win), successCount,
                                  failedCount,
                                  total - successCount - failedCount)
            /\ handler' = progressCallback(handler, total, total, 100,
                              MsgStopped(successCount, failedCount,
                                         total - successCount - failedCount))
       ELSE /\ win' = showComplete(disableStopButton(win), successCount, total)
            /\ handler' = progressCallback(handler, total, total, 100,
                              IF failedCount = 0 THEN MsgAllDone
                              ELSE IF successCount = 0 THEN MsgAllFailed
                              ELSE MsgSomeFailed(successCount, failedCount))
    /\ bpc' = "done"
    /\ UNCHANGED <<build, items, caught, idx, successCount, failedCount, stopped,
                   windowClosed, fullContent, notes, runs>>
    /\ UNCHANGED <<aiVars, storeVars>>

\* generateNoteForItem leaves its catch block and the catch of the loop
\* counts the failure; showsError tells whether the catch block reached
\* showError.
ItemFails(message, showsError) ==
    /\ win' = IF showsError THEN showError(win, idx + 1, message) ELSE win
    /\ failedCount' = failedCount + 1
    /\ idx' = nextIndexAfterFailure(idx, total)
    /\ runs' = SetLast(runs, "outcome", "failed")
    /\ caught' = NoError
    /\ bpc' = "loop"
    /\ UNCHANGED <<build, items, successCount, stopped, windowClosed,
                   fullContent, notes, handler>>
    /\ UNCHANGED <<aiVars, storeVars>>

\* generateNoteForItem enters its catch block with the error: the older
\* build starts to write the error note when the item has no note yet.
Caught(message, noteExists) ==
    IF writesErrorNote(build, noteExists)
    THEN /\ caught' = ErrorOf(message)
         /\ bpc' = "errorNote"
         /\ UNCHANGED <<build, items, idx, successCount, failedCount, stopped,
                        windowClosed, win, fullContent, notes, runs, handler>>
         /\ UNCHANGED <<aiVars, storeVars>>
    ELSE ItemFails(message, TRUE)

\* generateNoteForItem returns and the loop counts the success.
ItemDone ==
    /\ win' = finishItem(win)
    /\ handler' = progressCallback(handler, idx + 1, total, 100, MsgDone)
    /\ successCount' = successCount + 1
    /\ idx' = idx + 1
    /\ runs' = SetLast(runs, "outcome", "ok")
    /\ bpc' = "loop"
    /\ UNCHANGED <<build, items, caught, failedCount, stopped, windowClosed,
                   fullContent>>
    /\ UNCHANGED <<aiVars, storeVars>>

ExtractOk ==
    /\ bpc = "extracting"
    /\ extractTextFromItem(items[idx + 1]).kind = "return"
    /\ handler' = progressCallback(handler, idx + 1, total, 40, MsgGenerating)
    /\ win' = startItem(win, idx + 1)
    /\ bpc' = "summarising"
    /\ UNCHANGED <<build, items, caught, idx, successCount, failedCount, stopped,
                   windowClosed, fullContent, notes, runs>>
    /\ UNCHANGED <<aiVars, storeVars>>

ExtractFails ==
    /\ bpc = "extracting"
    /\ extractTextFromItem(items[idx + 1]).kind = "throw"
    /\ Caught(extractTextFromItem(items[idx + 1]).text, FALSE)

\* The sink handed to generateSummary.
onProgress(chunk) ==
    /\ bpc = "summarising"
    /\ Len(fullContent) < MaxChunks
    /\ fullContent' = fullContent \o chunk
    /\ win' = appendContent(win, chunk)
    /\ UNCHANGED <<build, items, caught, bpc, idx, successCount, failedCount, stopped,
                   windowClosed, notes, runs, handler>>
    /\ UNCHANGED <<aiVars, storeVars>>

SummaryReturns(summary) ==
    /\ bpc = "summarising"
    /\ fullContent' = noteTextFor(fullContent, summary)
    /\ handler' = progressCallback(handler, idx + 1, total, 80, MsgCreatingNote)
    /\ runs' = SetLast(SetLast(runs, "returned", TRUE), "summary", summary)
    /\ bpc' = "creating"
    /\ UNCHANGED <<build, items, caught, idx, successCount, failedCount, stopped,
                   windowClosed, win, notes>>
    /\ UNCHANGED <<aiVars, storeVars>>

SummaryThrows ==
    /\ bpc = "summarising"
    /\ Caught(MsgRequestFailed, FALSE)

\* Whether generateNoteForItem saves the note again after createNote.
savesAgain(b) == b = "noteGenerator.ts"

\* The save inside createNote resolves: the note is written.  The older
\* build then saves it again and waits; the newer one is done with the item.
NoteSaved ==
    /\ bpc = "creating"
    /\ notes' = Append(notes, formatNoteContent(idx + 1, fullContent))
    /\ IF savesAgain(build)
       THEN /\ bpc' = "resaving"
            /\ UNCHANGED <<build, items, caught, idx, successCount, failedCount,
                           stopped, windowClosed, win, fullContent, runs, handler>>
            /\ UNCHANGED <<aiVars, storeVars>>
       ELSE ItemDone

\* The save inside createNote rejects: nothing was written.
CreateNoteFails ==
    /\ bpc = "creating"
    /\ Caught(MsgSaveFailed, FALSE)

\* The second save of the older build resolves.
NoteResaved ==
    /\ bpc = "resaving"
    /\ ItemDone
    /\ UNCHANGED notes

\* The second save of the older build rejects, with the note written.
ResaveFails ==
    /\ bpc = "resaving"
    /\ Caught(MsgSaveFailed, TRUE)

\* The save inside createNote of the error note resolves: the error note is
\* written, and the catch block saves it again.
ErrorNoteSaved ==
    /\ bpc = "errorNote"
    /\ notes' = Append(notes, errorNoteContent(idx + 1, caught.message))
    /\ bpc' = "errorNoteResaving"
    /\ UNCHANGED <<build, items, caught, idx, successCount, failedCount, stopped,
                   windowClosed, win, fullContent, runs, handler>>
    /\ UNCHANGED <<aiVars, storeVars>>

\* The save inside createNote of the error note rejects: the rejection
\* leaves the catch block before showError.
ErrorNoteFails ==
    /\ bpc = "errorNote"
    /\ ItemFails(caught.message, FALSE)

\* The second save of the error note resolves: showError, then the rethrow.
ErrorNoteResaved ==
    /\ bpc = "errorNoteResaving"
    /\ ItemFails(caught.message, TRUE)

\* The second save of the error note rejects, with the error note written:
\* the rejection leaves the catch block before showError.
ErrorNoteResaveFails ==
    /\ bpc = "errorNoteResaving"
    /\ ItemFails(caught.message, FALSE)

\* The user clicks the stop button; the listener is attached once open has
\* taken the button.
StopClick ==
    /\ ListenersRun
    /\ win.open
    /\ ~win.stopDisabled
    /\ win' = [win EXCEPT !.stopDisabled = TRUE]
    /\ stopped' = stopClicked(win, stopped)
    /\ runs' = IF InItem THEN SetLast(runs, "stopAsked", TRUE) ELSE runs
    /\ UNCHANGED <<build, items, caught, bpc, idx, successCount, failedCount,
                   windowClosed, fullContent, notes, handler>>
    /\ UNCHANGED <<aiVars, storeVars>>

\* The user closes the output window, during the batch or after it: the
\* unload listener runs cleanup (and, in part_007, the close callback).
CloseWindow ==
    /\ ListenersRun
    /\ win.isOpen
    /\ win' = cleanup(win)
    /\ windowClosed' = (windowClosed \/ win.onClose)
    /\ runs' = IF InItem THEN SetLast(runs, "closedDuring", TRUE) ELSE runs
    /\ UNCHANGED <<build, items, caught, bpc, idx, successCount, failedCount, stopped,
                   fullContent, notes, handler>>
    /\ UNCHANGED <<aiVars, storeVars>>

(***************************************************************************)
(* Preference initialization                                               *)
(***************************************************************************)

\* prompts.ts: the version of the default prompt.
PROMPT_VERSION == 1

\* "https://api.openai.com/v1/chat/completions"
DefaultApiUrl ==
    <<"h","t","t","p","s",":","/","/">> \o FpOpenAI \o <<"/","v","1">> \o PathChatCompletions

\* shouldUpdatePrompt that overwrites only a prompt the user has not
\* customized: one that is unset, blank or equal to the default.
shouldUpdatePrompt_KeepCustom(currentPromptVersion, currentPrompt) ==
    IF currentPromptVersion = Undefined THEN TRUE
    ELSE /\ currentPromptVersion.n < PROMPT_VERSION
         /\ \/ currentPrompt.t # "str"
            \/ Trim(currentPrompt.s) = <<>>
            \/ currentPrompt.s = DEFAULT_SUMMARY_PROMPT

\* prompts.ts shouldUpdatePrompt: no stored version forces the update,
\* otherwise the stored version decides; currentPrompt is not consulted.
shouldUpdatePrompt(currentPromptVersion, currentPrompt) ==
    IF currentPromptVersion = Undefined THEN TRUE
    ELSE currentPromptVersion.n < PROMPT_VERSION

\* The defaults object, as Object.entries lists it.
PrefDefaults ==
    << <<"apiKey", JStr(<<>>)>>,
       <<"apiUrl", JStr(DefaultApiUrl)>>,
       <<"model", JStr(DefaultModel)>>,
       <<"temperature", JStr(DefaultTemperatureStr)>>,
       <<"stream", JBool(TRUE)>>,
       <<"summaryPrompt", JStr(DEFAULT_SUMMARY_PROMPT)>>,
       <<"promptVersion", JNum(PROMPT_VERSION)>> >>

PrefKeys == {PrefDefaults[i][1] : i \in 1..Len(PrefDefaults)}

\* The keys migrateToGlobalOnce moves, and the prefixes they were stored
\* under.
MigratedKeys == <<"apiKey", "apiUrl", "model">>

ClearedPrefixes == <<"openai", "deepseek", "custom", "customed">>

Scoped(p, k) == p \o "_" \o k

LegacyKeys ==
    {Scoped(ClearedPrefixes[i], MigratedKeys[j]) :
        i \in 1..Len(ClearedPrefixes), j \in 1..Len(MigratedKeys)}

MigratedFlag == "migratedToGlobalV2"

AllKeys == PrefKeys \cup LegacyKeys \cup {MigratedFlag}

setPref(st, key, value) == [st EXCEPT ![key] = value]

\* pick's sources for a key, in the order it tries them.
pickSources(k) ==
    <<Scoped("custom", k), Scoped("deepseek", k), Scoped("openai", k), k,
      Scoped("customed", k)>>

RECURSIVE pickFrom(_, _, _)
pickFrom(st, sources, i) ==
    IF i > Len(sources) THEN Undefined
    ELSE IF Truthy(st[sources[i]]) THEN st[sources[i]]
    ELSE pickFrom(st, sources, i + 1)

\* The first source that holds a truthy value, undefined when none does.
pick(st, k) == pickFrom(st, pickSources(k), 1)

\* The two loops of clearPref calls.
clearScoped(st) == [k \in DOMAIN st |-> IF k \in LegacyKeys THEN Undefined ELSE st[k]]

\* migrateToGlobalOnce: nothing once the flag is set; otherwise the three
\* global keys take what pick finds in the store as it was, the scoped keys
\* are cleared and the flag is set.
migrateToGlobalOnce(st) ==
    IF Truthy(st[MigratedFlag]) THEN st
    ELSE setPref(
           clearScoped(
             setPref(
               setPref(
                 setPref(st, "apiKey", OrElse(pick(st, "apiKey"), JStr(<<>>))),
                 "apiUrl", OrElse(pick(st, "apiUrl"), JStr(DefaultApiUrl))),
               "model", OrElse(pick(st, "model"), JStr(DefaultModel)))),
           MigratedFlag, JBool(TRUE))

\* One pass of the loop body over a key of the defaults.
initializePref(st, key, defaultValue) ==
    IF key = "summaryPrompt" /\ shouldUpdatePrompt(st["promptVersion"], st[key])
    THEN setPref(setPref(st, "summaryPrompt", defaultValue),
                 "promptVersion", JNum(PROMPT_VERSION))
    ELSE IF st[key] = Undefined \/ st[key] = JNull
    THEN setPref(st, key, defaultValue)
    ELSE IF defaultValue.t = "str" /\ st[key].t = "str" /\ Trim(st[key].s) = <<>>
    THEN setPref(st, key, defaultValue)
    ELSE st

RECURSIVE initializeFrom(_, _)
initializeFrom(st, i) ==
    IF i > Len(PrefDefaults) THEN st
    ELSE initializeFrom(initializePref(st, PrefDefaults[i][1], PrefDefaults[i][2]), i + 1)

\* aiService.ts initializeDefaultPrefs, on the store it is given.
initializeDefaultPrefs(st) == initializeFrom(st, 1)

\* hooks.ts initializeDefaultPrefsOnStartup: the same loop over the same
\* defaults.
initializeDefaultPrefsOnStartup(st) == initializeFrom(st, 1)

\* No preferences pane is loaded.
NoForm ==
    [open |-> FALSE, apiKey |-> <<>>, apiUrl |-> <<>>, model |-> <<>>,
     temperature |-> <<>>, summaryPrompt |-> <<>>, stream |-> FALSE]

\* savedPrompt && savedPrompt.trim()
promptIsSaved(st) ==
    Truthy(st["summaryPrompt"]) /\ Trim(st["summaryPrompt"].s) # <<>>

\* updatePrefsUI, the fields: each shows the stored value or its fallback.
fieldsShown(st) ==
    [open |-> TRUE,
     apiKey |-> OrElse(st["apiKey"], JStr(<<>>)).s,
     apiUrl |-> OrElse(st["apiUrl"], JStr(DefaultApiUrl)).s,
     model |-> OrElse(st["model"], JStr(DefaultModel)).s,
     temperature |-> OrElse(st["temperature"], JStr(DefaultTemperatureStr)).s,
     summaryPrompt |-> IF promptIsSaved(st) THEN st["summaryPrompt"].s
                       ELSE DEFAULT_SUMMARY_PROMPT,
     stream |-> IF st["stream"] \in {Undefined, JNull} THEN TRUE
                ELSE Truthy(st["stream"])]

\* updatePrefsUI, the store: a prompt that is not saved is saved as the
\* default.
updatePrefsUI(st) ==
    IF promptIsSaved(st) THEN st
    ELSE setPref(st, "summaryPrompt", JStr(DEFAULT_SUMMARY_PROMPT))

\* The save listener of a field, on the field's value.
FieldNames == {"apiKey", "apiUrl", "model", "temperature", "summaryPrompt", "stream"}

save(st, f, field) ==
    CASE field = "temperature" ->
            setPref(st, field, JStr(IF f.temperature = <<>> THEN DefaultTemperatureStr
                                    ELSE f.temperature))
      [] field = "summaryPrompt" ->
            setPref(st, field, JStr(IF f.summaryPrompt = <<>> THEN DEFAULT_SUMMARY_PROMPT
                                    ELSE f.summaryPrompt))
      [] field = "stream" -> setPref(st, field, JBool(f.stream))
      [] OTHER -> setPref(st, field, JStr(f[field]))

\* The unload listener: every field is saved.
flush(st, f) ==
    save(save(save(save(save(save(st, f, "apiKey"), f, "apiUrl"), f, "model"),
                   f, "temperature"), f, "summaryPrompt"), f, "stream")

\* How many initializations a behaviour runs.
MaxInits == 2

\* The preferences pane loads: registerPrefsScripts migrates, initializes,
\* fills the fields and binds the listeners.
RegisterPrefsScripts ==
    /\ initCount < MaxInits
    /\ ~form.open
    /\ \E st \in {initializeDefaultPrefs(migrateToGlobalOnce(store))} :
          /\ form' = fieldsShown(st)
          /\ store' = updatePrefsUI(st)
    /\ initCount' = initCount + 1
    /\ UNCHANGED <<aiVars, batchVars>>

\* The plugin starts: initializeDefaultPrefsOnStartup runs.
InitializeDefaultPrefsOnStartup ==
    /\ initCount < MaxInits
    /\ store' = initializeDefaultPrefsOnStartup(store)
    /\ initCount' = initCount + 1
    /\ UNCHANGED <<form, aiVars, batchVars>>

\* What the user types into the fields of the pane.
Typed(field) ==
    CASE field = "apiKey"        -> {<<>>, <<"k">>}
      [] field = "apiUrl"        -> {<<>>, UrlCustom}
      [] field = "model"         -> {<<>>, DefaultModel}
      [] field = "temperature"   -> {<<>>, <<"0">>}
      [] field = "summaryPrompt" -> {<<>>, <<" ">>, <<"m","y"," ","p","r","o","m","p","t">>}
      [] field = "stream"        -> BOOLEAN

\* The user edits a field: its input listener saves the new value.
FieldInput(field, value) ==
    /\ form.open
    /\ form[field] # value
    /\ form' = [form EXCEPT ![field] = value]
    /\ store' = save(store, form', field)
    /\ UNCHANGED <<initCount, aiVars, batchVars>>

\* A field loses the focus or reports a change: the same listener saves the
\* value the field holds.
FieldBlur(field) ==
    /\ form.open
    /\ store' = save(store, form, field)
    /\ UNCHANGED <<form, initCount, aiVars, batchVars>>

\* The pane unloads: the unload listener saves every field.
PrefsUnload ==
    /\ form.open
    /\ store' = flush(store, form)
    /\ form' = NoForm
    /\ UNCHANGED <<initCount, aiVars, batchVars>>

\* A store that holds the given global keys and nothing else.
StoreOf(globals, flag) ==
    [k \in AllKeys |-> IF k \in DOMAIN globals THEN globals[k]
                       ELSE IF k = MigratedFlag THEN flag
                       ELSE Undefined]

\* Every key at its default.
DefaultStore ==
    StoreOf([k \in PrefKeys |->
               PrefDefaults[CHOOSE i \in 1..Len(PrefDefaults) : PrefDefaults[i][1] = k][2]],
            JBool(TRUE))

\* The store while no initialization is looked at.
StoreAtRest ==
    /\ store = DefaultStore
    /\ form = NoForm
    /\ initCount = 0

\* The batch variables while no batch runs.
BatchAtRest ==
    /\ build = "part_007"
    /\ items = <<>>
    /\ bpc = "idle"
    /\ idx = 0
    /\ successCount = 0
    /\ failedCount = 0
    /\ stopped = FALSE
    /\ windowClosed = FALSE
    /\ win = NewOutputWindow
    /\ fullContent = <<>>
    /\ notes = <<>>
    /\ caught = NoError
    /\ runs = <<>>
    /\ handler = NewHandler

Next ==
    \/ Start
    \/ \E m \in NextCuts, status \in Statuses, throwPlan \in ThrowPlans, slow \in BOOLEAN :
          Progress(m, status, throwPlan, slow)
    \/ TransportResolve
    \/ \E error \in TransportErrors : TransportReject(error)
    \/ \E r \in ReplyBodies, sinkThrows \in BOOLEAN : NonStreamResolve(r, sinkThrows)
    \/ SinkSettles
    \/ \E error \in TransportErrors : NonStreamReject(error)

\* The state before the call, for given inputs.
InitWith(p, s, b) ==
    /\ prefs = p
    /\ sinkGiven = s
    /\ body = b
    /\ pc = "idle"
    /\ call = NoCall
    /\ adaptCalls = <<>>
    /\ requests = <<>>
    /\ xhr = "none"
    /\ sent = 0
    /\ timeout = 0
    /\ stream = InitialStream
    /\ wellBehaved = InitialStream
    /\ lastProgress = NoProgress
    /\ sinkLog = <<>>
    /\ reply = <<>>
    /\ result = NoResult

\* Whether a call with these inputs takes the streaming branch.
Streams(p, s) ==
    /\ s
    /\ p.stream # "false"
    /\ Trim(p.apiUrl) # <<>>
    /\ Trim(p.apiKey) # <<>> \/ detectProvider(Trim(p.apiUrl)) = "gemini"

\* The calls whose streaming exchange is explored with every body of the
\* mode: a line-mode provider and Gemini.
StreamingPrefs ==
    {MakePrefs(UrlCustom, <<"k">>, "true"), MakePrefs(UrlGemini, <<"k">>, "true")}

\* Every configuration: unset, blank and set URLs and keys, the stream
\* preference set, cleared and unset.
ConfigPrefs ==
    {MakePrefs(u, k, s) :
        u \in {<<>>, <<" ">>, UrlCustom, UrlGemini, UrlGeminiWithKey, UrlClaude},
        k \in {<<>>, <<" ">>, <<"k">>},
        s \in {"true", "false", "undefined"}}

\* The bodies a call with these inputs is explored with.
BodiesFor(p, s) ==
    IF ~Streams(p, s) THEN {<<>>}
    ELSE IF p \in StreamingPrefs THEN StreamBodies(detectProvider(Trim(p.apiUrl)))
    ELSE IF detectProvider(Trim(p.apiUrl)) = "gemini"
    THEN {<<"[">> \o GeminiObjA \o <<"]">>}
    ELSE {LineDeltaA \o LineDone}

Init ==
    \E p \in ConfigPrefs, s \in BOOLEAN :
        \E b \in BodiesFor(p, s) : InitWith(p, s, b) /\ BatchAtRest /\ StoreAtRest

Spec == Init /\ [][Next]_vars

\* ---- The batch as a program ----------------------------------------------
ItemLists == UNION {[1..n -> ItemKinds] : n \in 1..MaxItems}

BatchInit ==
    /\ InitWith(MakePrefs(UrlCustom, <<"k">>, "true"), TRUE, <<>>)
    /\ build \in Builds
    /\ items \in ItemLists
    /\ bpc = "idle"
    /\ idx = 0
    /\ successCount = 0
    /\ failedCount = 0
    /\ stopped = FALSE
    /\ windowClosed = FALSE
    /\ win = NewOutputWindow
    /\ fullContent = <<>>
    /\ notes = <<>>
    /\ caught = NoError
    /\ runs = <<>>
    /\ handler = NewHandler
    /\ StoreAtRest

BatchNext ==
    \/ BatchStart
    \/ OpenReturns
    \/ BeginItem
    \/ Report
    \/ ExtractOk
    \/ ExtractFails
    \/ onProgress(ChunkA)
    \/ SummaryReturns(SummaryS)
    \/ SummaryThrows
    \/ NoteSaved
    \/ CreateNoteFails
    \/ NoteResaved
    \/ ResaveFails
    \/ ErrorNoteSaved
    \/ ErrorNoteFails
    \/ ErrorNoteResaved
    \/ ErrorNoteResaveFails
    \/ StopClick
    \/ CloseWindow

BatchSpec == BatchInit /\ [][BatchNext]_vars

(***************************************************************************)
(* The configuration and the requests it leads to                          *)
(***************************************************************************)

UpperChar(c) ==
    IF \E i \in 1..Len(LowerLetters) : LowerLetters[i] = c
    THEN UpperLetters[CHOOSE i \in 1..Len(LowerLetters) : LowerLetters[i] = c]
    ELSE c

ToUpperCase(s) == [i \in 1..Len(s) |-> UpperChar(s[i])]

\* https://<host>
UrlOf(host) == <<"h","t","t","p","s",":","/","/">> \o host

\* A URL in capitals that names the Claude host first and the OpenAI host
\* after it.
UrlClaudeThenOpenAI == ToUpperCase(UrlOf(FpClaude)) \o <<"/">> \o FpOpenAI

\* A Gemini URL that names the Azure host in its path.
UrlGeminiThenAzure == UrlOf(FpGemini) \o <<"/">> \o FpAzure

\* A Gemini URL that names the streaming endpoint.
UrlGeminiStream == UrlGemini \o <<"/","g">> \o SufStream

\* The URLs a call is configured with: each host in lower case, hosts in
\* capitals, URLs naming two hosts, Gemini URLs bare and with an endpoint,
\* an unknown host and no URL.
ConfigUrls ==
    {UrlOf(FpOpenAI), UrlOf(FpDeepSeek), UrlOf(FpAzure), UrlOf(FpGemini), UrlClaude,
     ToUpperCase(UrlOf(FpDeepSeek)), UrlClaudeThenOpenAI, UrlGeminiThenAzure,
     UrlGemini, UrlGemini \o <<"/">>, UrlGeminiWithKey, UrlGeminiStream,
     UrlCustom, <<>>}

\* The temperature preference: unset, 0, 0.5, 1, and text that is no number.
ConfigTemperatures == {<<>>, <<"0">>, <<"0",".","5">>, <<"1">>, <<"x">>}

\* A call for each configuration; the streaming exchange, when there is
\* one, ends without a delta, so that the fallback request is issued too.
ConfigInit ==
    /\ \E u \in ConfigUrls, k \in {<<>>, <<"k">>}, s \in {"true", "false", "undefined"},
          t \in ConfigTemperatures, sink \in BOOLEAN :
          InitWith([MakePrefs(u, k, s) EXCEPT !.temperature = t], sink, <<>>)
    /\ BatchAtRest
    /\ StoreAtRest

ConfigNext ==
    \/ Start
    \/ TransportResolve
    \/ \E sinkThrows \in BOOLEAN : NonStreamResolve(ReplyOpenAI, sinkThrows)
    \/ SinkSettles

ConfigSpec == ConfigInit /\ [][ConfigNext]_vars

(***************************************************************************)
(* Preference initialization as a program                                  *)
(***************************************************************************)

\* A prompt the user wrote.
CustomPrompt == <<"m","y"," ","p","r","o","m","p","t">>

\* What the global keys can hold before an initialization: each key unset or
\* set, the prompt unset, blank, the default or the user's own, and the
\* prompt version unset, older than, equal to or newer than PROMPT_VERSION.
StoredValues ==
    [apiKey        : {Undefined, JStr(<<>>), JStr(<<"k">>)},
     apiUrl        : {Undefined, JStr(<<" ">>), JStr(UrlCustom)},
     model         : {Undefined, JStr(DefaultModel)},
     temperature   : {Undefined, JStr(<<"0">>)},
     stream        : {Undefined, JBool(FALSE)},
     summaryPrompt : {Undefined, JStr(<<>>), JStr(<<" ">>), JStr(DEFAULT_SUMMARY_PROMPT),
                      JStr(CustomPrompt)},
     promptVersion : {Undefined, JNum(PROMPT_VERSION - 1), JNum(PROMPT_VERSION),
                      JNum(PROMPT_VERSION + 1)}]

\* Values left under scoped keys by earlier versions of the plugin.
LegacyUrlX == <<"h","t","t","p",":","/","/","x">>

LegacyUrlY == <<"h","t","t","p",":","/","/","y">>

LegacyValues ==
    [custom_apiUrl   : {Undefined, JStr(LegacyUrlX)},
     deepseek_apiUrl : {Undefined, JStr(<<>>)},
     customed_apiUrl : {Undefined, JStr(LegacyUrlY)},
     deepseek_apiKey : {Undefined, JStr(<<"o","l","d">>)},
     openai_model    : {Undefined, JStr(<<"g","p","t","-","4">>)}]

\* The global keys of the stores that hold scoped keys.
GlobalsBesideLegacy ==
    [apiKey        : {Undefined, JStr(<<"k">>)},
     apiUrl        : {Undefined, JStr(UrlCustom)},
     model         : {Undefined, JStr(DefaultModel)},
     temperature   : {JStr(<<"0">>)},
     stream        : {JBool(FALSE)},
     summaryPrompt : {JStr(CustomPrompt)},
     promptVersion : {JNum(PROMPT_VERSION - 1), JNum(PROMPT_VERSION)}]

\* A store of global and scoped keys.
WithLegacy(globals, legacy, flag) ==
    [k \in AllKeys |-> IF k \in DOMAIN globals THEN globals[k]
                       ELSE IF k \in DOMAIN legacy THEN legacy[k]
                       ELSE IF k = MigratedFlag THEN flag
                       ELSE Undefined]

\* The stores an initialization can meet: migrated or not, with and without
\* scoped keys.
StartStores ==
    {StoreOf(g, flag) : g \in StoredValues, flag \in {Undefined, JBool(TRUE)}}
    \cup {WithLegacy(g, l, flag) :
            g \in GlobalsBesideLegacy, l \in LegacyValues,
            flag \in {Undefined, JBool(TRUE)}}

PrefsInit ==
    /\ InitWith(MakePrefs(UrlCustom, <<"k">>, "true"), TRUE, <<>>)
    /\ BatchAtRest
    /\ store \in StartStores
    /\ form = NoForm
    /\ initCount = 0

PrefsNext ==
    \/ RegisterPrefsScripts
    \/ InitializeDefaultPrefsOnStartup
    \/ \E field \in FieldNames : \E value \in Typed(field) : FieldInput(field, value)
    \/ \E field \in FieldNames : FieldBlur(field)
    \/ PrefsUnload

PrefsSpec == PrefsInit /\ [][PrefsNext]_vars

(***************************************************************************)
(* Properties                                                              *)
(***************************************************************************)

\* C1: a call that returns normally with a sink supplied, on the streaming
\* path, the zero-delta fallback path or the non-streaming path, has passed
\* the sink increments whose concatenation in invocation order is the
\* returned text, every increment being new (non-empty) text.
C1_SinkConcatenation ==
    (pc = "returned" /\ sinkGiven) =>
        /\ Join(sinkLog) = result.text
        /\ \A i \in 1..Len(sinkLog) : sinkLog[i] # <<>>

\* A streaming call returned after two increments.
C1_Witness ==
    /\ pc = "returned"
    /\ sinkGiven
    /\ xhr = "resolved"
    /\ Len(sinkLog) = 2
    /\ Len(requests) = 1

\* The snapshot the latest progress event ran on.
LastSnapshot == SubSeq(body, 1, lastProgress.respLen)

\* C2 (as claimed): in line mode the text assembled from a body does not
\* depend on how the body was cut into snapshots: once the whole body has
\* been decoded it is the text decoded from the body delivered at once.
C2_CutIndependence ==
    (/\ pc = "streaming"
     /\ call.providerType # "gemini"
     /\ lastProgress.seen
     /\ lastProgress.status < 400
     /\ lastProgress.respLen = Len(body)
     /\ ~stream.abortedDueToError) =>
        Join(stream.chunks)
          = Join(onprogress(InitialStream, 200, body, call.providerType, {}).st.chunks)

\* C3 (as claimed): a streaming exchange that saw the sentinel and decoded
\* no delta is followed by a fallback request, however it ended.
C3_FallbackHoweverEnded ==
    (/\ xhr \in {"resolved", "rejected"}
     /\ stream.streamComplete
     /\ ~stream.gotAnyDelta
     /\ ~stream.abortedDueToError) =>
        Len(requests) = 2

\* The payload of the streaming request without the stream flag.
WithoutStreamFlag(payload) == [k \in DOMAIN payload \ {"stream"} |-> payload[k]]

\* C3 (amended): when the exchange saw the sentinel and decoded no delta
\* and the transport then resolves, exactly one non-streaming request is
\* made, with the URL, headers (key), model, temperature and messages of
\* the streaming request, and the text of its response is what the call
\* returns; when the transport rejects instead, the call throws and makes
\* no fallback request.
C3_FallbackOnResolve ==
    (stream.streamComplete /\ ~stream.gotAnyDelta) =>
        /\ xhr = "resolved" =>
              /\ Len(requests) = 2
              /\ requests[2].url = requests[1].url
              /\ requests[2].headers = requests[1].headers
              /\ requests[2].payload = WithoutStreamFlag(requests[1].payload)
              /\ requests[2].payload.model = Trim(prefs.model)
              /\ requests[2].responseType = "json"
              /\ pc \in {"nonstream", "awaitingSink", "returned", "thrown"}
              /\ pc = "returned" =>
                    result = Returned(nonStreamResult(reply, call.providerType))
        /\ xhr = "rejected" => pc = "thrown" /\ Len(requests) = 1

\* The fallback after a sentinel without deltas returned the text of the
\* non-streaming response.
C3_Witness ==
    /\ xhr = "resolved"
    /\ stream.streamComplete
    /\ ~stream.gotAnyDelta
    /\ Len(requests) = 2
    /\ pc = "returned"
    /\ reply = ReplyOpenAI
    /\ result.text = <<"r">>

\* C4 (as claimed): a progress event that observed a status >= 400 has set
\* the abort flag, recorded an error and aborted the request, whatever the
\* response was, and decoded no frame.
C4_ErrorStatusAborts ==
    (lastProgress.seen /\ lastProgress.status >= 400) =>
        /\ stream.abortedDueToError
        /\ ~stream.errorFromProgress.isNull
        /\ lastProgress.abortCalled
        /\ lastProgress.frames = 0

\* Whether v is an error body carrying a code and a message as strings,
\* under `error` or at the top level.
HasCodeAndMessage(v) ==
    LET err == OrElse(Get(v, <<"e","r","r","o","r">>), v)
    IN  /\ Get(err, <<"c","o","d","e">>).t = "str"
        /\ Get(err, <<"m","e","s","s","a","g","e">>).t = "str"

\* Whether v is a JSON value carrying neither a code nor a message.
HasNoCodeNoMessage(v) ==
    LET err == OrElse(Get(v, <<"e","r","r","o","r">>), v)
    IN  /\ ~Truthy(Get(err, <<"c","o","d","e">>))
        /\ ~Truthy(Get(err, <<"m","e","s","s","a","g","e">>))

\* `<code>: <message>` of such a body.
CodeAndMessage(v) ==
    LET err == OrElse(Get(v, <<"e","r","r","o","r">>), v)
    IN  Get(err, <<"c","o","d","e">>).s \o <<":", " ">>
            \o Get(err, <<"m","e","s","s","a","g","e">>).s

\* `HTTP <status>: <request failed>`
HttpFailure(status) ==
    <<"H","T","T","P"," ">> \o IntToString(status) \o <<":", " ">> \o MsgRequestFailed

\* C5 (as claimed): once the abort flag is set the call ends by throwing an
\* error whose message is `<code>: <message>` taken from the provider's
\* error body.
C5_MessageFromBody ==
    (stream.abortedDueToError /\ pc = "thrown") =>
        /\ JSONparse(LastSnapshot).ok
        /\ HasCodeAndMessage(JSONparse(LastSnapshot).v)
        /\ result.text = CodeAndMessage(JSONparse(LastSnapshot).v)

\* What holds of every state in which the abort flag is set.
AbortOutcome ==
    stream.abortedDueToError =>
        /\ pc \in {"streaming", "thrown"}
        /\ xhr \in {"aborted", "rejected"}
        /\ Len(requests) = 1
        /\ pc = "thrown" => result = Thrown(stream.errorFromProgress.message)
        /\ (JSONparse(LastSnapshot).ok /\ HasCodeAndMessage(JSONparse(LastSnapshot).v)) =>
              stream.errorFromProgress.message = CodeAndMessage(JSONparse(LastSnapshot).v)
        /\ (\/ ~JSONparse(LastSnapshot).ok
            \/ HasNoCodeNoMessage(JSONparse(LastSnapshot).v)) =>
              stream.errorFromProgress.message = HttpFailure(lastProgress.status)

\* C5 (amended): once the abort flag is set the sink is not invoked again,
\* no further request is made, and the call ends by throwing the error
\* captured in the progress handler, never by returning text; the message
\* is `<code>: <message>` from the error body when the body is JSON
\* carrying both, and `HTTP <status>: <request failed>` when the body is
\* not JSON or carries neither.
C5_AbortEndsCall ==
    /\ []AbortOutcome
    /\ [][stream.abortedDueToError => (sinkLog' = sinkLog /\ requests' = requests)]_vars

\* The call threw the error captured on an error status whose body was not
\* JSON.
C5_Witness ==
    /\ stream.abortedDueToError
    /\ pc = "thrown"
    /\ ~JSONparse(LastSnapshot).ok
    /\ sinkLog # <<>>
    /\ result.text = HttpFailure(401)

\* C6 (as claimed): text is returned only after the sentinel was seen and a
\* delta delivered, or with zero deltas delivered.
C6_SentinelOrZeroDeltas ==
    pc = "returned" =>
        \/ stream.streamComplete /\ stream.gotAnyDelta
        \/ ~stream.gotAnyDelta

\* C6 (amended): text is returned only when the streaming transport
\* resolved with at least one delta delivered (the sentinel seen or not),
\* when it rejected with the sentinel seen, a delta delivered and no abort,
\* or from a non-streaming request, made directly or as the fallback after
\* an exchange that resolved with zero deltas.
C6_ReturnStates ==
    pc = "returned" =>
        \/ /\ xhr = "resolved"
           /\ stream.gotAnyDelta
           /\ Len(requests) = 1
           /\ result = Returned(Join(stream.chunks))
        \/ /\ xhr = "rejected"
           /\ stream.streamComplete
           /\ stream.gotAnyDelta
           /\ ~stream.abortedDueToError
           /\ Len(requests) = 1
           /\ result = Returned(Join(stream.chunks))
        \/ /\ \/ xhr = "none" /\ Len(requests) = 1
              \/ xhr = "resolved" /\ Len(requests) = 2
           /\ ~stream.gotAnyDelta
           /\ requests[Len(requests)].responseType = "json"
           /\ result = Returned(nonStreamResult(reply, call.providerType))

\* The streamed text was returned though the sentinel was never seen.
C6_Witness ==
    /\ pc = "returned"
    /\ xhr = "resolved"
    /\ stream.gotAnyDelta
    /\ ~stream.streamComplete
    /\ result.text # <<>>

\* C7: when the transport of a streaming exchange rejects, the call returns
\* the accumulated text if and only if the abort flag is not set, the
\* sentinel was seen and at least one delta was delivered; otherwise it
\* throws, the abort-captured error first, and in no case is a fallback
\* request made.
C7_RejectOutcome ==
    xhr = "rejected" =>
        /\ pc \in {"returned", "thrown"}
        /\ (pc = "returned") <=> /\ ~stream.abortedDueToError
                                 /\ stream.streamComplete
                                 /\ stream.gotAnyDelta
        /\ pc = "returned" => result = Returned(Join(stream.chunks))
        /\ pc = "thrown" => result.kind = "throw"
        /\ stream.abortedDueToError => result = Thrown(stream.errorFromProgress.message)
        /\ Len(requests) = 1
        /\ Len(adaptCalls) = 1

\* The exchange rejected after an abort that came once the sentinel and a
\* delta had been seen: the captured error is thrown.
C7_Witness ==
    /\ xhr = "rejected"
    /\ pc = "thrown"
    /\ stream.abortedDueToError
    /\ stream.streamComplete
    /\ stream.gotAnyDelta

\* C8: with the URL empty after trimming, or the key empty after trimming
\* and a provider other than Gemini, the call throws a configuration error
\* without any HTTP request and without invoking the sink, the URL being
\* tested before the key.
C8_ConfigRefused ==
    (/\ pc # "idle"
     /\ \/ Trim(prefs.apiUrl) = <<>>
        \/ Trim(prefs.apiKey) = <<>> /\ detectProvider(Trim(prefs.apiUrl)) # "gemini") =>
        /\ pc = "thrown"
        /\ requests = <<>>
        /\ sinkLog = <<>>
        /\ result = Thrown(IF Trim(prefs.apiUrl) = <<>> THEN MsgUrlNotConfigured
                           ELSE MsgKeyNotConfigured)

\* Both the URL and the key are blank: the URL error is the one thrown.
C8_Witness ==
    /\ pc = "thrown"
    /\ Trim(prefs.apiUrl) = <<>>
    /\ Trim(prefs.apiKey) = <<>>
    /\ result = Thrown(MsgUrlNotConfigured)
    /\ sinkGiven

\* C9 (as claimed): for every provider, Gemini included, a call with an
\* empty key and a URL without a key parameter is refused before
\* adaptRequest is invoked, and no request is sent.
C9_RefusedWithoutKey ==
    (/\ pc # "idle"
     /\ Trim(prefs.apiKey) = <<>>
     /\ ~Includes(prefs.apiUrl, <<"k","e","y","=">>)) =>
        /\ pc = "thrown"
        /\ adaptCalls = <<>>
        /\ requests = <<>>

\* C11 (as claimed): within one call the sink invocations never overlap: no
\* invocation starts while the promise returned by an earlier one is still
\* pending.
C11_SinkNeverOverlaps ==
    ~lastProgress.sinkOverlap

\* C12 (as claimed): in Gemini mode, after every progress event, the
\* increments offered to the sink are exactly the texts of the objects closed
\* within the snapshot, each once and in order, and processedLength stands
\* just after a closing brace.
C12_EachObjectOnce ==
    (/\ pc = "streaming"
     /\ call.providerType = "gemini"
     /\ lastProgress.seen
     /\ lastProgress.status < 400
     /\ ~stream.abortedDueToError) =>
        /\ sinkLog = onprogress(InitialStream, 200, LastSnapshot, "gemini", {}).emitted
        /\ \/ stream.processedLength = 0
           \/ LastSnapshot[stream.processedLength] = "}"

\* s with every occurrence of p removed.
RECURSIVE RemoveAll(_, _)
RemoveAll(s, p) ==
    IF Includes(s, p) THEN RemoveAll(ReplaceFirst(s, p, <<>>), p) ELSE s

\* A body without its malformed frames.
Denoised(b) == RemoveAll(RemoveAll(RemoveAll(b, LineNoise), LinePing), GeminiObjBad)

\* The stream state after the body was delivered in one snapshot.
decodeWhole(b, providerType) ==
    onprogress(InitialStream, 200, b, providerType, {}).st

\* The stream state after the body was delivered in snapshots ending at
\* each line feed after `from`, and at its end.
RECURSIVE decodeByLines(_, _, _, _)
decodeByLines(st, b, from, providerType) ==
    IF \E p \in (from + 1)..Len(b) : b[p] = "\n"
    THEN LET p == CHOOSE q \in (from + 1)..Len(b) :
                     /\ b[q] = "\n"
                     /\ \A r \in (from + 1)..(q - 1) : b[r] # "\n"
         IN  decodeByLines(onprogress(st, 200, SubSeq(b, 1, p), providerType, {}).st,
                           b, p, providerType)
    ELSE IF from < Len(b) THEN onprogress(st, 200, b, providerType, {}).st
    ELSE st

\* What of a stream state the caller can observe.
Observable(st) ==
    <<st.chunks, st.delivered, st.gotAnyDelta, st.streamComplete,
      st.abortedDueToError, st.errorFromProgress>>

\* C13: a malformed frame raises no error and sets neither the abort flag
\* nor the sentinel flag, and the frames after it are decoded as if it were
\* absent: progress events with a success status leave the abort flag and the
\* captured error unset, the sentinel flag is set only when the snapshot
\* holds the sentinel line, and the body decodes to the same chunks,
\* delivered length and flags as the body without its malformed frames,
\* delivered whole or line by line.
C13_NoiseDropped ==
    /\ (lastProgress.seen /\ lastProgress.status < 400) =>
          (~stream.abortedDueToError /\ stream.errorFromProgress.isNull)
    /\ stream.streamComplete => Includes(LastSnapshot, DataPrefix \o DoneSentinel)
    /\ pc = "streaming" =>
          /\ Observable(decodeWhole(body, call.providerType))
               = Observable(decodeWhole(Denoised(body), call.providerType))
          /\ Observable(decodeByLines(InitialStream, body, 0, call.providerType))
               = Observable(decodeByLines(InitialStream, Denoised(body), 0, call.providerType))

\* A delta that follows a malformed frame was decoded and offered to the
\* sink.
C13_Witness ==
    /\ pc = "streaming"
    /\ \/ StartsWith(body, LineNoise)
       \/ StartsWith(body, LinePing)
       \/ StartsWith(body, <<"[">> \o GeminiObjBad)
    /\ sent = Len(body)
    /\ lastProgress.seen
    /\ lastProgress.status < 400
    /\ stream.chunks # <<>>
    /\ sinkLog # <<>>
    /\ ~stream.abortedDueToError

\* C20: the delivered-length counter never decreases, never exceeds the
\* length of the accumulated text, and equals it after each processed
\* frame.
C20_DeliveredLength ==
    /\ [](stream.delivered = Len(Join(stream.chunks)))
    /\ [][stream'.delivered >= stream.delivered]_vars

\* Two increments were delivered, the counter standing at the length of the
\* accumulated text.
C20_Witness ==
    /\ Len(stream.chunks) >= 2
    /\ Len(sinkLog) >= 2
    /\ stream.delivered = Len(Join(stream.chunks))
    /\ stream.delivered >= 2

\* C10 (as claimed): the accumulated text and the delivered length are
\* those the same progress events produce with a sink that never throws.
C10_SinkIndependence ==
    /\ stream.chunks = wellBehaved.chunks
    /\ stream.delivered = wellBehaved.delivered

(***************************************************************************)
(* Properties of the batch                                                 *)
(***************************************************************************)

\* The attempts that ended with the given outcome.
RunsEnded(outcome) == {k \in 1..Len(runs) : runs[k].outcome = outcome}

\* The notes written for item k.
NotesOf(k) == {i \in 1..Len(notes) : notes[i].item = k}

\* C14: when no stop is requested, every item is attempted exactly once, in
\* list order, whatever the outcome of the earlier items, and at the end
\* successCount + failedCount is the number of items.
C14_EveryItemOnce ==
    /\ \A k \in 1..Len(runs) : runs[k].item = k
    /\ (bpc = "done" /\ ~stopped) =>
          /\ Len(runs) = total
          /\ \A k \in 1..Len(runs) : runs[k].outcome \in {"ok", "failed"}
          /\ successCount = Cardinality(RunsEnded("ok"))
          /\ failedCount = Cardinality(RunsEnded("failed"))
          /\ successCount + failedCount = total

\* A batch of two ran to its end without a stop: the first item failed, the
\* second succeeded.
C14_Witness ==
    /\ bpc = "done"
    /\ ~stopped
    /\ total = 2
    /\ Len(runs) = 2
    /\ runs[1].outcome = "failed"
    /\ runs[2].outcome = "ok"

\* C15: when the stop callback fires while item i is processed, item i runs
\* to its end (its note is written if it succeeds), no later item is started,
\* and the not-processed count reported is total - successCount - failedCount
\* and is not negative.
C15_StopLetsItemFinish ==
    \A k \in 1..Len(runs) :
        runs[k].stopAsked =>
            /\ stopped
            /\ k = Len(runs)
            /\ bpc = "done" =>
                  /\ runs[k].outcome \in {"ok", "failed"}
                  /\ runs[k].outcome = "ok" =>
                        \E i \in NotesOf(k) : notes[i].kind = "summary"
                  /\ total - successCount - failedCount >= 0
                  /\ total - successCount - failedCount = total - k
                  /\ win.open =>
                        win.blocks[Len(win.blocks)] =
                            [kind |-> "stopped", success |-> successCount,
                             failed |-> failedCount,
                             notProcessed |->
                                 total - successCount - failedCount]

\* The stop button was clicked during the first of two items; that item
\* succeeded and its note exists, the second was never started.
C15_Witness ==
    /\ bpc = "done"
    /\ total = 2
    /\ Len(runs) = 1
    /\ runs[1].stopAsked
    /\ runs[1].outcome = "ok"
    /\ NotesOf(1) # {}
    /\ win.open
    /\ win.blocks[Len(win.blocks)].kind = "stopped"
    /\ win.blocks[Len(win.blocks)].notProcessed = 1

\* C16 (as claimed): an item whose text extraction fails gets no note, its
\* error is shown in the output window (while that is open) and it is
\* counted as failed.
C16_NoNoteOnExtractionFailure ==
    \A k \in 1..Len(runs) :
        (extractTextFromItem(items[k]).kind = "throw" /\ runs[k].outcome # "running") =>
            /\ NotesOf(k) = {}
            /\ runs[k].outcome = "failed"
            /\ win.open =>
                  \E b \in 1..Len(win.blocks) :
                      win.blocks[b] = [kind |-> "error", title |-> k]

\* C17 (as claimed): at the end of a batch the counts shown in the output
\* window and in the final line of the progress window are the numbers of
\* items that succeeded and that threw.
C17_ShownCountsAreReal ==
    bpc = "done" =>
        /\ handler.final.kind # "none"
        /\ handler.final.success = Cardinality(RunsEnded("ok"))
        /\ handler.final.failed = Cardinality(RunsEnded("failed"))
        /\ win.open =>
              /\ win.blocks[Len(win.blocks)].success = Cardinality(RunsEnded("ok"))
              /\ win.blocks[Len(win.blocks)].failed = Cardinality(RunsEnded("failed"))

\* C18: a summary note is written only after generateSummary has returned
\* for the item, its text is the returned text and not what was streamed,
\* and one call writes at most one note.
C18_NoteFromReturnedText ==
    /\ \A i \in 1..Len(notes) :
          notes[i].kind = "summary" =>
              /\ notes[i].item \in 1..Len(runs)
              /\ runs[notes[i].item].returned
              /\ notes[i].text = runs[notes[i].item].summary
    /\ \A k \in 1..Len(runs) : Cardinality(NotesOf(k)) <= 1

\* An item streamed a chunk into the window, generateSummary returned a
\* different text, and the one note written holds the returned text.
C18_Witness ==
    /\ Len(notes) = 1
    /\ notes[1].kind = "summary"
    /\ notes[1].text = SummaryS
    /\ win.buffer = ChunkA
    /\ runs[1].outcome = "ok"

\* C19: closing the output window neither stops nor fails the batch: the
\* stop flag, the position and the counts are untouched, every later call of
\* the output window that shows something leaves it as it is, and without a
\* stop every item is still attempted and every success has its note.
C19_ClosingIsHarmless ==
    /\ [][(win.isOpen /\ ~win'.isOpen) =>
              /\ stopped' = stopped
              /\ bpc' = bpc
              /\ idx' = idx
              /\ successCount' = successCount
              /\ failedCount' = failedCount
              /\ notes' = notes]_vars
    /\ [][(~win.isOpen /\ bpc # "idle") =>
              [win' EXCEPT !.onStop = win.onStop, !.onClose = win.onClose] = win]_vars
    /\ []((bpc = "done" /\ ~stopped) =>
              /\ Len(runs) = total
              /\ \A k \in RunsEnded("ok") :
                    \E i \in NotesOf(k) : notes[i].kind = "summary")

\* The window was closed while the first of two items was processed; both
\* items succeeded and have their notes, and no stop was recorded.
C19_Witness ==
    /\ bpc = "done"
    /\ ~win.isOpen
    /\ ~stopped
    /\ total = 2
    /\ Len(runs) = 2
    /\ runs[1].closedDuring
    /\ RunsEnded("ok") = {1, 2}
    /\ Len(notes) = 2

(***************************************************************************)
(* Properties of the decoder's bookkeeping                                 *)
(***************************************************************************)

\* The part of a snapshot that line mode has not yet taken as a line: what
\* follows its last LF, nothing when it ends with a line terminator.
PendingLine(snap) ==
    IF snap = <<>> \/ snap[Len(snap)] \in {"\n", "\r"} THEN <<>>
    ELSE Let({i \in 1..Len(snap) : snap[i] = "\n"}, LAMBDA lfs :
             IF lfs = {} THEN snap
             ELSE SliceFrom(snap, CHOOSE i \in lfs : \A j \in lfs : j <= i))

\* C21: processedLength never decreases and never exceeds the length of the
\* latest snapshot; in line mode every byte is consumed once: after an
\* invocation processedLength is the snapshot's length and the partial line
\* carried over is exactly the unterminated end of the snapshot; in Gemini
\* mode processedLength stands at 0 or just after a closed object.
C21_ProcessedLength ==
    /\ [](stream.processedLength <= lastProgress.respLen)
    /\ []((lastProgress.seen /\ lastProgress.status < 400 /\ ~stream.abortedDueToError
             /\ call.providerType # "gemini") =>
              /\ stream.processedLength = Len(LastSnapshot)
              /\ stream.partialLine = PendingLine(LastSnapshot))
    /\ []((lastProgress.seen /\ call.providerType = "gemini") =>
              \/ stream.processedLength = 0
              \/ LastSnapshot[stream.processedLength] = "}")
    /\ [][stream'.processedLength >= stream.processedLength]_vars

\* A line-mode exchange in which a delta was decoded from an earlier
\* snapshot and the latest snapshot ends inside a line.
C21_Witness ==
    /\ pc = "streaming"
    /\ call.providerType # "gemini"
    /\ stream.chunks # <<>>
    /\ stream.partialLine # <<>>
    /\ stream.processedLength > Len(stream.partialLine)
    /\ sent < Len(body)

(***************************************************************************)
(* Properties of the configuration and the requests                        *)
(***************************************************************************)

\* The fingerprints in the order they are tested, with their profiles.
FingerprintOrder ==
    << [fp |-> FpOpenAI,   profile |-> "openai"],
       [fp |-> FpDeepSeek, profile |-> "deepseek"],
       [fp |-> FpAzure,    profile |-> "azure"],
       [fp |-> FpGemini,   profile |-> "gemini"],
       [fp |-> FpClaude,   profile |-> "claude"] >>

\* The profile of the first fingerprint, in that order, found in the
\* lower-cased URL.
FirstFingerprint(url) ==
    Let({i \in 1..Len(FingerprintOrder) :
            Includes(ToLowerCase(url), FingerprintOrder[i].fp)}, LAMBDA hits :
        IF hits = {} THEN "custom"
        ELSE FingerprintOrder[CHOOSE i \in hits : \A j \in hits : i <= j].profile)

\* C22: the profile is a function of the URL alone: that of the first
\* fingerprint, in the fixed order, occurring in the lower-cased URL, Custom
\* when none occurs, whatever the key, the stream flag, the temperature and
\* the sink.
C22_FirstFingerprintWins ==
    call.started => call.providerType = FirstFingerprint(Trim(prefs.apiUrl))

\* A call whose URL, in capitals, names the Claude host before the OpenAI
\* host: it was classified OpenAI and its request was issued.
C22_Witness ==
    /\ prefs.apiUrl = UrlClaudeThenOpenAI
    /\ call.started
    /\ call.providerType = "openai"
    /\ requests # <<>>

\* C23: a Gemini request names streamGenerateContent exactly on the
\* streaming path and generateContent exactly on the non-streaming and
\* fallback paths, whatever endpoint the configured URL named; its body has
\* no stream, model or messages key, and the key travels only as the key
\* query parameter.
C23_GeminiEndpoint ==
    (call.started /\ call.providerType = "gemini") =>
        \A i \in 1..Len(requests) :
            /\ Includes(requests[i].url, SufStream) <=> requests[i].responseType = "text"
            /\ Includes(requests[i].url, SufGenerate) <=> requests[i].responseType = "json"
            /\ requests[i].responseType = "text" <=> (i = 1 /\ adaptCalls[1] /\ sinkGiven)
            /\ DOMAIN requests[i].payload \cap {"stream", "model", "messages"} = {}
            /\ DOMAIN requests[i].headers = {"Content-Type"}
            /\ call.apiKey # <<>> => EndsWith(requests[i].url, QueryKey \o call.apiKey)
            /\ call.apiKey = <<>> => requests[i].url = adaptRequest(call.apiUrl, <<>>,
                                        call.basePayload, "gemini",
                                        requests[i].responseType = "text").url

\* A Gemini call configured with a URL that names generateContent: its
\* streaming request went to streamGenerateContent and, no delta having
\* come, its fallback request to generateContent.
C23_Witness ==
    /\ prefs.apiUrl = UrlGeminiWithKey
    /\ call.started
    /\ Len(requests) = 2
    /\ Includes(requests[1].url, SufStream)
    /\ ~Includes(requests[2].url, SufStream)
    /\ Includes(requests[2].url, SufGenerate)

\* C24 (as claimed): the body of a Claude request carries the system
\* instruction in a top-level system field, its messages hold no system
\* entry, max_tokens is 4096, and the headers are x-api-key and
\* anthropic-version without Authorization.
C24_ClaudeSystemField ==
    (call.started /\ call.providerType = "claude") =>
        \A i \in 1..Len(requests) :
            /\ HasKey(requests[i].payload, "system")
            /\ requests[i].payload["system"] = SYSTEM_ROLE_PROMPT
            /\ \A j \in 1..Len(requests[i].payload["messages"]) :
                  requests[i].payload["messages"][j].role # "system"
            /\ HasKey(requests[i].payload, "max_tokens")
            /\ requests[i].payload["max_tokens"] = ClaudeMaxTokens
            /\ {"x-api-key", "anthropic-version"} \subseteq DOMAIN requests[i].headers
            /\ "Authorization" \notin DOMAIN requests[i].headers

\* The temperature a request carries.
RequestTemperature(request, providerType) ==
    IF providerType = "gemini"
    THEN request.payload["generationConfig"].temperature
    ELSE request.payload["temperature"]

\* C26 (as claimed): the temperature of every request is the configured
\* value when that is a number from 0 to 1, 0 included, and the default
\* when it is unset or not a number.
C26_TemperatureAsConfigured ==
    call.started =>
        \A i \in 1..Len(requests) :
            RequestTemperature(requests[i], call.providerType) =
                IF prefs.temperature = <<>> \/ parseFloat(prefs.temperature).nan
                THEN DefaultTemperature
                ELSE parseFloat(prefs.temperature).tenths

(***************************************************************************)
(* Properties of the decoded text                                          *)
(***************************************************************************)

\* The delta a line carries: the string parseStreamDelta extracts from its
\* payload, empty when the line has no payload, no JSON or no delta.
LineDeltaOf(raw, providerType) ==
    Let(linePayload(raw), LAMBDA line :
        IF line.kind # "json" \/ line.jsonStr = <<>> THEN <<>>
        ELSE Let(JSONparse(line.jsonStr), LAMBDA r :
                 IF ~r.ok THEN <<>>
                 ELSE Let(parseStreamDelta(r.v, providerType), LAMBDA delta :
                          IF delta.t = "str" THEN delta.s ELSE <<>>)))

\* The deltas the frames of the body carry: of its lines in line mode, of
\* its objects in Gemini mode.
ExtractedDeltas ==
    IF call.providerType = "gemini"
    THEN {Let(JSONparse(o), LAMBDA r :
              IF ~r.ok THEN <<>>
              ELSE Let(parseStreamDelta(r.v, "gemini"), LAMBDA delta :
                       IF delta.t = "str" THEN delta.s ELSE <<>>)) :
             o \in {g \in GeminiObjects : Includes(body, g)}}
    ELSE Let(SplitLines(body, 1), LAMBDA lines :
             {LineDeltaOf(lines[i], call.providerType) : i \in 1..Len(lines)})

\* C25 (as claimed): every text appended to the accumulated text is the
\* delta of a frame, unmodified, and it is passed to the sink as one
\* increment equal to it.
C25_DeltasUnmodified ==
    (pc = "streaming" /\ call.started) =>
        /\ \A i \in 1..Len(stream.chunks) : stream.chunks[i] \in ExtractedDeltas \ {<<>>}
        /\ sinkLog = stream.chunks

\* The part of a body up to and with its last line terminator.
TerminatedPart(b) == SubSeq(b, 1, Len(b) - Len(PendingLine(b)))

\* The deltas of the terminated lines of a body, in order.
TerminatedDeltas(b, providerType) ==
    Let(SplitLines(TerminatedPart(b), 1), LAMBDA lines :
        SelectSeq([i \in 1..Len(lines) |-> LineDeltaOf(lines[i], providerType)],
                  LAMBDA d : d # <<>>))

\* C29: in line mode the partial line is not flushed when the exchange
\* ends: after the request resolved on a body whose last frame has no line
\* terminator, that frame is still pending, the text holds the deltas of the
\* terminated lines only, and with no other delta the call has gone to the
\* fallback request.
C29_PartialLineNeverFlushed ==
    (/\ xhr = "resolved"
     /\ call.providerType # "gemini"
     /\ PendingLine(body) # <<>>
     /\ ~Includes(body, DoneSentinel)) =>
        /\ stream.partialLine = PendingLine(body)
        /\ stream.chunks = TerminatedDeltas(body, call.providerType)
        /\ stream.chunks = <<>> => Len(requests) = 2 /\ requests[2].responseType = "json"
        /\ stream.chunks # <<>> => result = Returned(Join(stream.chunks))

\* The exchange resolved on a body of one NDJSON frame followed by a delta
\* frame without terminator: the text returned is the first delta alone.
C29_Witness ==
    /\ xhr = "resolved"
    /\ body = LineDeltaB \o LineDeltaTail
    /\ stream.partialLine = LineDeltaTail
    /\ result = Returned(<<"b">>)

\* The exchange resolved on a body that is one delta frame without
\* terminator: no delta was decoded and the fallback request was issued.
C29_FallbackWitness ==
    /\ xhr = "resolved"
    /\ body = LineDeltaTail
    /\ stream.chunks = <<>>
    /\ Len(requests) = 2

\* Whether a line is the sentinel frame.
IsDoneLine(raw) ==
    StartsWith(raw, DataPrefix) /\ Trim(SliceFrom(raw, Len(DataPrefix))) = DoneSentinel

\* The lines that the snapshot of length `next` completes after the
\* snapshot of length `prev`.
NewLines(prev, next) ==
    Let(PendingLine(SubSeq(body, 1, prev)) \o SubSeq(body, prev + 1, next), LAMBDA slice :
        IF TerminatedPart(slice) = <<>> THEN <<>>
        ELSE SplitLines(TerminatedPart(slice), 1))

\* The texts appended for a list of lines: the deltas of the lines before
\* the first sentinel, as line mode stores them.
RECURSIVE DeltasUpToDone(_, _)
DeltasUpToDone(lines, providerType) ==
    IF lines = <<>> \/ IsDoneLine(Head(lines)) THEN <<>>
    ELSE (IF LineDeltaOf(Head(lines), providerType) # <<>>
          THEN <<CollapseNewlines(LineDeltaOf(Head(lines), providerType))>>
          ELSE <<>>)
         \o DeltasUpToDone(Tail(lines), providerType)

\* A progress event of line mode that brings new data on a success status.
LineStep ==
    /\ pc = "streaming"
    /\ xhr = "open"
    /\ call.providerType # "gemini"
    /\ sent' > sent
    /\ lastProgress'.status < 400

\* C30: the sentinel flag is never cleared, and it does not close the
\* decoder: whether or not the sentinel was seen before, an invocation
\* appends and emits the deltas of the lines its slice completes up to the
\* first sentinel in it, drops the lines after that sentinel for good
\* (processedLength covers them) and keeps the pending partial line.
C30_SentinelDoesNotClose ==
    /\ [][stream.streamComplete => stream'.streamComplete]_vars
    /\ [][LineStep =>
            /\ stream'.chunks =
                   stream.chunks \o DeltasUpToDone(NewLines(sent, sent'), call.providerType)
            /\ sinkLog' =
                   sinkLog \o DeltasUpToDone(NewLines(sent, sent'), call.providerType)
            /\ stream'.processedLength = sent'
            /\ stream'.partialLine = PendingLine(SubSeq(body, 1, sent'))
            /\ stream'.streamComplete =
                   (stream.streamComplete
                    \/ \E i \in 1..Len(NewLines(sent, sent')) :
                          IsDoneLine(NewLines(sent, sent')[i]))]_vars

\* The sentinel came first and the delta frame after it in a later
\* snapshot: the delta was decoded and emitted with the flag already set.
C30_Witness ==
    /\ body = LineDone \o LineDeltaA
    /\ sent = Len(body)
    /\ stream.streamComplete
    /\ stream.chunks = <<(<<"a">>)>>
    /\ sinkLog = <<(<<"a">>)>>

\* The same body delivered in one snapshot: the delta frame followed the
\* sentinel in the slice and was dropped.
C30_DroppedWitness ==
    /\ body = LineDone \o LineDeltaA
    /\ sent = Len(body)
    /\ stream.streamComplete
    /\ stream.processedLength = Len(body)
    /\ stream.chunks = <<>>

\* C27 (as claimed): after every progress event that delivers data the
\* timeout of the exchange is armed (not zero), so that an idle connection
\* times out.
C27_TimeoutStaysArmed ==
    (pc = "streaming" /\ xhr = "open" /\ lastProgress.seen) => timeout # 0
(***************************************************************************)
(* Properties of the preference initialization                             *)
(***************************************************************************)

\* A version is stored and is lower than PROMPT_VERSION.
StoredVersionLower(st) ==
    st["promptVersion"].t = "num" /\ st["promptVersion"].n < PROMPT_VERSION

\* The user customized the prompt: it is set, not blank and not the default.
Customized(p) ==
    p.t = "str" /\ Trim(p.s) # <<>> /\ p.s # DEFAULT_SUMMARY_PROMPT

\* A version is stored that is not lower than PROMPT_VERSION, and the
\* stored prompt is not blank.
UpToDate(st) ==
    /\ st["promptVersion"].t = "num" /\ st["promptVersion"].n >= PROMPT_VERSION
    /\ st["summaryPrompt"].t = "str" /\ Trim(st["summaryPrompt"].s) # <<>>

\* With a stored version lower than PROMPT_VERSION, an initialization
\* changes the prompt to nothing but the default.
C28_ReplacedByDefaultOnly ==
    [][(initCount' # initCount /\ StoredVersionLower(store)
            /\ store'["summaryPrompt"] # store["summaryPrompt"])
        => store'["summaryPrompt"] = JStr(DEFAULT_SUMMARY_PROMPT)]_vars

\* An initialization that meets a version not lower than PROMPT_VERSION and
\* a prompt that is not blank leaves the prompt and its version as they are.
C28_UpToDateIsKept ==
    [][(initCount' # initCount /\ UpToDate(store))
        => /\ store'["summaryPrompt"] = store["summaryPrompt"]
           /\ store'["promptVersion"] = store["promptVersion"]]_vars

\* C28 (as claimed): during preference initialization, when a prompt version
\* is stored and is lower than PROMPT_VERSION, the stored summary prompt is
\* replaced by the default only if the user has not customized it: a
\* customized prompt is left unchanged; and once the stored version equals
\* PROMPT_VERSION, further initializations leave the stored prompt unchanged.
C28_CustomPromptKept ==
    [][initCount' # initCount =>
          /\ (StoredVersionLower(store)
                /\ store'["summaryPrompt"] # store["summaryPrompt"])
             => store'["summaryPrompt"] = JStr(DEFAULT_SUMMARY_PROMPT)
          /\ (StoredVersionLower(store) /\ Customized(store["summaryPrompt"]))
             => store'["summaryPrompt"] = store["summaryPrompt"]
          /\ (initCount > 0 /\ store["promptVersion"] = JNum(PROMPT_VERSION))
             => store'["summaryPrompt"] = store["summaryPrompt"]]_vars

\* An initialization has run and left the default prompt under the current
\* version, with the pane loaded.
C28_Witness ==
    /\ initCount > 0
    /\ form.open
    /\ store["promptVersion"] = JNum(PROMPT_VERSION)
    /\ store["summaryPrompt"] = JStr(DEFAULT_SUMMARY_PROMPT)

====
